---- MODULE Spec2Model ----
(***************************************************************************)
(* HTML to rich text conversion of umya-spreadsheet (src/helper/html.rs):  *)
(* html_to_richtext_custom parses the fragment, read_node flattens the     *)
(* parse tree into HtmlFlatData runs, make_rich_text evaluates the         *)
(* DataAnalysis policy on every run and builds the RichText.               *)
(*                                                                         *)
(* A String is a sequence of one-character strings, so that trimming,      *)
(* case conversion, table lookup and number parsing are computed.          *)
(* Option<T> is a sequence of length 0 (None) or 1 (Some).                 *)
(***************************************************************************)
EXTENDS Integers, Sequences, FiniteSets, TLC

VARIABLES html, pc, stack, data, k, facets, result, ret, other

\* The objects of src/structs: the OleObjects collection and the relationship
\* id it is written with, the events of an XML writer, the
\* NonVisualDrawingProperties written and the reader that reads them back, the
\* Stylesheet and the Style got from it.
VARIABLES ole_object, r_id, writer, properties, reader, stylesheet, style

htmlVars == <<html, pc, stack, data, k, facets, result, ret, other>>
structVars == <<ole_object, r_id, writer, properties, reader, stylesheet, style>>

vars == <<htmlVars, structVars>>

\* Bounds of the model.
\* Largest number of nodes of a parse tree (all levels together).
MaxNodes == 3
\* Longest ancestor sequence of a run handed directly to make_rich_text.
MaxAncestors == 2
\* Longest run list handed directly to make_rich_text.
MaxRuns == 2
\* Longest size attribute value.
MaxSizeLen == 2
\* Largest number of leading '#' of a color token.
MaxHashes == 2

None == <<>>
Some(v) == <<v>>

----------------------------------------------------------------------------
\* Strings.

Lower ==
    <<"a","b","c","d","e","f","g","h","i","j","k","l","m",
      "n","o","p","q","r","s","t","u","v","w","x","y","z">>
Upper ==
    <<"A","B","C","D","E","F","G","H","I","J","K","L","M",
      "N","O","P","Q","R","S","T","U","V","W","X","Y","Z">>

LowerSet == {Lower[i] : i \in 1..26}
UpperSet == {Upper[i] : i \in 1..26}

UpperOf == [c \in LowerSet |-> Upper[CHOOSE i \in 1..26 : Lower[i] = c]]
LowerOf == [c \in UpperSet |-> Lower[CHOOSE i \in 1..26 : Upper[i] = c]]

\* str::to_uppercase on the ASCII letters, digits and punctuation of the model.
to_uppercase(s) ==
    [i \in 1..Len(s) |-> IF s[i] \in LowerSet THEN UpperOf[s[i]] ELSE s[i]]

\* str::to_lowercase, used to enumerate spellings of the inputs only.
to_lowercase(s) ==
    [i \in 1..Len(s) |-> IF s[i] \in UpperSet THEN LowerOf[s[i]] ELSE s[i]]

\* str::trim_start_matches(c): removes the pattern from the start repeatedly.
RECURSIVE trim_start_matches(_, _)
trim_start_matches(s, c) ==
    IF s # <<>> /\ Head(s) = c THEN trim_start_matches(Tail(s), c) ELSE s

COLOR_MAP_with_hash ==
    << << <<"b","l","u","e">>, <<"0","0","0","0","f","f">> >>,
       << <<"g","r","a","y","9","9">>, <<"f","c","f","c","f","c">> >>,
       << <<"r","e","d">>, <<"#","f","f","0","0","0","0">> >> >>

COLOR_MAP_duplicate_key ==
    << << <<"r","e","d">>, <<"f","f","0","0","0","0">> >>,
       << <<"g","r","a","y","9","9">>, <<"f","c","f","c","f","c">> >>,
       << <<"R","e","d">>, <<"e","e","0","0","0","0">> >> >>

COLOR_MAP ==
    <<
       <<<<"a","l","i","c","e","b","l","u","e">>, <<"f","0","f","8","f","f">>>>,
       <<<<"a","n","t","i","q","u","e","w","h","i","t","e">>, <<"f","a","e","b","d","7">>>>,
       <<<<"a","n","t","i","q","u","e","w","h","i","t","e","1">>, <<"f","f","e","f","d","b">>>>,
       <<<<"a","n","t","i","q","u","e","w","h","i","t","e","2">>, <<"e","e","d","f","c","c">>>>,
       <<<<"a","n","t","i","q","u","e","w","h","i","t","e","3">>, <<"c","d","c","0","b","0">>>>,
       <<<<"a","n","t","i","q","u","e","w","h","i","t","e","4">>, <<"8","b","8","3","7","8">>>>,
       <<<<"a","q","u","a">>, <<"0","0","f","f","f","f">>>>,
       <<<<"a","q","u","a","m","a","r","i","n","e","1">>, <<"7","f","f","f","d","4">>>>,
       <<<<"a","q","u","a","m","a","r","i","n","e","2">>, <<"7","6","e","e","c","6">>>>,
       <<<<"a","q","u","a","m","a","r","i","n","e","4">>, <<"4","5","8","b","7","4">>>>,
       <<<<"a","z","u","r","e","1">>, <<"f","0","f","f","f","f">>>>,
       <<<<"a","z","u","r","e","2">>, <<"e","0","e","e","e","e">>>>,
       <<<<"a","z","u","r","e","3">>, <<"c","1","c","d","c","d">>>>,
       <<<<"a","z","u","r","e","4">>, <<"8","3","8","b","8","b">>>>,
       <<<<"b","e","i","g","e">>, <<"f","5","f","5","d","c">>>>,
       <<<<"b","i","s","q","u","e","1">>, <<"f","f","e","4","c","4">>>>,
       <<<<"b","i","s","q","u","e","2">>, <<"e","e","d","5","b","7">>>>,
       <<<<"b","i","s","q","u","e","3">>, <<"c","d","b","7","9","e">>>>,
       <<<<"b","i","s","q","u","e","4">>, <<"8","b","7","d","6","b">>>>,
       <<<<"b","l","a","c","k">>, <<"0","0","0","0","0","0">>>>,
       <<<<"b","l","a","n","c","h","e","d","a","l","m","o","n","d">>, <<"f","f","e","b","c","d">>>>,
       <<<<"b","l","u","e">>, <<"0","0","0","0","f","f">>>>,
       <<<<"b","l","u","e","1">>, <<"0","0","0","0","f","f">>>>,
       <<<<"b","l","u","e","2">>, <<"0","0","0","0","e","e">>>>,
       <<<<"b","l","u","e","4">>, <<"0","0","0","0","8","b">>>>,
       <<<<"b","l","u","e","v","i","o","l","e","t">>, <<"8","a","2","b","e","2">>>>,
       <<<<"b","r","o","w","n">>, <<"a","5","2","a","2","a">>>>,
       <<<<"b","r","o","w","n","1">>, <<"f","f","4","0","4","0">>>>,
       <<<<"b","r","o","w","n","2">>, <<"e","e","3","b","3","b">>>>,
       <<<<"b","r","o","w","n","3">>, <<"c","d","3","3","3","3">>>>,
       <<<<"b","r","o","w","n","4">>, <<"8","b","2","3","2","3">>>>,
       <<<<"b","u","r","l","y","w","o","o","d">>, <<"d","e","b","8","8","7">>>>,
       <<<<"b","u","r","l","y","w","o","o","d","1">>, <<"f","f","d","3","9","b">>>>,
       <<<<"b","u","r","l","y","w","o","o","d","2">>, <<"e","e","c","5","9","1">>>>,
       <<<<"b","u","r","l","y","w","o","o","d","3">>, <<"c","d","a","a","7","d">>>>,
       <<<<"b","u","r","l","y","w","o","o","d","4">>, <<"8","b","7","3","5","5">>>>,
       <<<<"c","a","d","e","t","b","l","u","e">>, <<"5","f","9","e","a","0">>>>,
       <<<<"c","a","d","e","t","b","l","u","e","1">>, <<"9","8","f","5","f","f">>>>,
       <<<<"c","a","d","e","t","b","l","u","e","2">>, <<"8","e","e","5","e","e">>>>,
       <<<<"c","a","d","e","t","b","l","u","e","3">>, <<"7","a","c","5","c","d">>>>,
       <<<<"c","a","d","e","t","b","l","u","e","4">>, <<"5","3","8","6","8","b">>>>,
       <<<<"c","h","a","r","t","r","e","u","s","e","1">>, <<"7","f","f","f","0","0">>>>,
       <<<<"c","h","a","r","t","r","e","u","s","e","2">>, <<"7","6","e","e","0","0">>>>,
       <<<<"c","h","a","r","t","r","e","u","s","e","3">>, <<"6","6","c","d","0","0">>>>,
       <<<<"c","h","a","r","t","r","e","u","s","e","4">>, <<"4","5","8","b","0","0">>>>,
       <<<<"c","h","o","c","o","l","a","t","e">>, <<"d","2","6","9","1","e">>>>,
       <<<<"c","h","o","c","o","l","a","t","e","1">>, <<"f","f","7","f","2","4">>>>,
       <<<<"c","h","o","c","o","l","a","t","e","2">>, <<"e","e","7","6","2","1">>>>,
       <<<<"c","h","o","c","o","l","a","t","e","3">>, <<"c","d","6","6","1","d">>>>,
       <<<<"c","o","r","a","l">>, <<"f","f","7","f","5","0">>>>,
       <<<<"c","o","r","a","l","1">>, <<"f","f","7","2","5","6">>>>,
       <<<<"c","o","r","a","l","2">>, <<"e","e","6","a","5","0">>>>,
       <<<<"c","o","r","a","l","3">>, <<"c","d","5","b","4","5">>>>,
       <<<<"c","o","r","a","l","4">>, <<"8","b","3","e","2","f">>>>,
       <<<<"c","o","r","n","f","l","o","w","e","r","b","l","u","e">>, <<"6","4","9","5","e","d">>>>,
       <<<<"c","o","r","n","s","i","l","k","1">>, <<"f","f","f","8","d","c">>>>,
       <<<<"c","o","r","n","s","i","l","k","2">>, <<"e","e","e","8","c","d">>>>,
       <<<<"c","o","r","n","s","i","l","k","3">>, <<"c","d","c","8","b","1">>>>,
       <<<<"c","o","r","n","s","i","l","k","4">>, <<"8","b","8","8","7","8">>>>,
       <<<<"c","y","a","n","1">>, <<"0","0","f","f","f","f">>>>,
       <<<<"c","y","a","n","2">>, <<"0","0","e","e","e","e">>>>,
       <<<<"c","y","a","n","3">>, <<"0","0","c","d","c","d">>>>,
       <<<<"c","y","a","n","4">>, <<"0","0","8","b","8","b">>>>,
       <<<<"d","a","r","k","g","o","l","d","e","n","r","o","d">>, <<"b","8","8","6","0","b">>>>,
       <<<<"d","a","r","k","g","o","l","d","e","n","r","o","d","1">>, <<"f","f","b","9","0","f">>>>,
       <<<<"d","a","r","k","g","o","l","d","e","n","r","o","d","2">>, <<"e","e","a","d","0","e">>>>,
       <<<<"d","a","r","k","g","o","l","d","e","n","r","o","d","3">>, <<"c","d","9","5","0","c">>>>,
       <<<<"d","a","r","k","g","o","l","d","e","n","r","o","d","4">>, <<"8","b","6","5","0","8">>>>,
       <<<<"d","a","r","k","g","r","e","e","n">>, <<"0","0","6","4","0","0">>>>,
       <<<<"d","a","r","k","k","h","a","k","i">>, <<"b","d","b","7","6","b">>>>,
       <<<<"d","a","r","k","o","l","i","v","e","g","r","e","e","n">>, <<"5","5","6","b","2","f">>>>,
       <<<<"d","a","r","k","o","l","i","v","e","g","r","e","e","n","1">>, <<"c","a","f","f","7","0">>>>,
       <<<<"d","a","r","k","o","l","i","v","e","g","r","e","e","n","2">>, <<"b","c","e","e","6","8">>>>,
       <<<<"d","a","r","k","o","l","i","v","e","g","r","e","e","n","3">>, <<"a","2","c","d","5","a">>>>,
       <<<<"d","a","r","k","o","l","i","v","e","g","r","e","e","n","4">>, <<"6","e","8","b","3","d">>>>,
       <<<<"d","a","r","k","o","r","a","n","g","e">>, <<"f","f","8","c","0","0">>>>,
       <<<<"d","a","r","k","o","r","a","n","g","e","1">>, <<"f","f","7","f","0","0">>>>,
       <<<<"d","a","r","k","o","r","a","n","g","e","2">>, <<"e","e","7","6","0","0">>>>,
       <<<<"d","a","r","k","o","r","a","n","g","e","3">>, <<"c","d","6","6","0","0">>>>,
       <<<<"d","a","r","k","o","r","a","n","g","e","4">>, <<"8","b","4","5","0","0">>>>,
       <<<<"d","a","r","k","o","r","c","h","i","d">>, <<"9","9","3","2","c","c">>>>,
       <<<<"d","a","r","k","o","r","c","h","i","d","1">>, <<"b","f","3","e","f","f">>>>,
       <<<<"d","a","r","k","o","r","c","h","i","d","2">>, <<"b","2","3","a","e","e">>>>,
       <<<<"d","a","r","k","o","r","c","h","i","d","3">>, <<"9","a","3","2","c","d">>>>,
       <<<<"d","a","r","k","o","r","c","h","i","d","4">>, <<"6","8","2","2","8","b">>>>,
       <<<<"d","a","r","k","s","a","l","m","o","n">>, <<"e","9","9","6","7","a">>>>,
       <<<<"d","a","r","k","s","e","a","g","r","e","e","n">>, <<"8","f","b","c","8","f">>>>,
       <<<<"d","a","r","k","s","e","a","g","r","e","e","n","1">>, <<"c","1","f","f","c","1">>>>,
       <<<<"d","a","r","k","s","e","a","g","r","e","e","n","2">>, <<"b","4","e","e","b","4">>>>,
       <<<<"d","a","r","k","s","e","a","g","r","e","e","n","3">>, <<"9","b","c","d","9","b">>>>,
       <<<<"d","a","r","k","s","e","a","g","r","e","e","n","4">>, <<"6","9","8","b","6","9">>>>,
       <<<<"d","a","r","k","s","l","a","t","e","b","l","u","e">>, <<"4","8","3","d","8","b">>>>,
       <<<<"d","a","r","k","s","l","a","t","e","g","r","a","y">>, <<"2","f","4","f","4","f">>>>,
       <<<<"d","a","r","k","s","l","a","t","e","g","r","a","y","1">>, <<"9","7","f","f","f","f">>>>,
       <<<<"d","a","r","k","s","l","a","t","e","g","r","a","y","2">>, <<"8","d","e","e","e","e">>>>,
       <<<<"d","a","r","k","s","l","a","t","e","g","r","a","y","3">>, <<"7","9","c","d","c","d">>>>,
       <<<<"d","a","r","k","s","l","a","t","e","g","r","a","y","4">>, <<"5","2","8","b","8","b">>>>,
       <<<<"d","a","r","k","t","u","r","q","u","o","i","s","e">>, <<"0","0","c","e","d","1">>>>,
       <<<<"d","a","r","k","v","i","o","l","e","t">>, <<"9","4","0","0","d","3">>>>,
       <<<<"d","e","e","p","p","i","n","k","1">>, <<"f","f","1","4","9","3">>>>,
       <<<<"d","e","e","p","p","i","n","k","2">>, <<"e","e","1","2","8","9">>>>,
       <<<<"d","e","e","p","p","i","n","k","3">>, <<"c","d","1","0","7","6">>>>,
       <<<<"d","e","e","p","p","i","n","k","4">>, <<"8","b","0","a","5","0">>>>,
       <<<<"d","e","e","p","s","k","y","b","l","u","e","1">>, <<"0","0","b","f","f","f">>>>,
       <<<<"d","e","e","p","s","k","y","b","l","u","e","2">>, <<"0","0","b","2","e","e">>>>,
       <<<<"d","e","e","p","s","k","y","b","l","u","e","3">>, <<"0","0","9","a","c","d">>>>,
       <<<<"d","e","e","p","s","k","y","b","l","u","e","4">>, <<"0","0","6","8","8","b">>>>,
       <<<<"d","i","m","g","r","a","y">>, <<"6","9","6","9","6","9">>>>,
       <<<<"d","o","d","g","e","r","b","l","u","e","1">>, <<"1","e","9","0","f","f">>>>,
       <<<<"d","o","d","g","e","r","b","l","u","e","2">>, <<"1","c","8","6","e","e">>>>,
       <<<<"d","o","d","g","e","r","b","l","u","e","3">>, <<"1","8","7","4","c","d">>>>,
       <<<<"d","o","d","g","e","r","b","l","u","e","4">>, <<"1","0","4","e","8","b">>>>,
       <<<<"f","i","r","e","b","r","i","c","k">>, <<"b","2","2","2","2","2">>>>,
       <<<<"f","i","r","e","b","r","i","c","k","1">>, <<"f","f","3","0","3","0">>>>,
       <<<<"f","i","r","e","b","r","i","c","k","2">>, <<"e","e","2","c","2","c">>>>,
       <<<<"f","i","r","e","b","r","i","c","k","3">>, <<"c","d","2","6","2","6">>>>,
       <<<<"f","i","r","e","b","r","i","c","k","4">>, <<"8","b","1","a","1","a">>>>,
       <<<<"f","l","o","r","a","l","w","h","i","t","e">>, <<"f","f","f","a","f","0">>>>,
       <<<<"f","o","r","e","s","t","g","r","e","e","n">>, <<"2","2","8","b","2","2">>>>,
       <<<<"f","u","c","h","s","i","a">>, <<"f","f","0","0","f","f">>>>,
       <<<<"g","a","i","n","s","b","o","r","o">>, <<"d","c","d","c","d","c">>>>,
       <<<<"g","h","o","s","t","w","h","i","t","e">>, <<"f","8","f","8","f","f">>>>,
       <<<<"g","o","l","d","1">>, <<"f","f","d","7","0","0">>>>,
       <<<<"g","o","l","d","2">>, <<"e","e","c","9","0","0">>>>,
       <<<<"g","o","l","d","3">>, <<"c","d","a","d","0","0">>>>,
       <<<<"g","o","l","d","4">>, <<"8","b","7","5","0","0">>>>,
       <<<<"g","o","l","d","e","n","r","o","d">>, <<"d","a","a","5","2","0">>>>,
       <<<<"g","o","l","d","e","n","r","o","d","1">>, <<"f","f","c","1","2","5">>>>,
       <<<<"g","o","l","d","e","n","r","o","d","2">>, <<"e","e","b","4","2","2">>>>,
       <<<<"g","o","l","d","e","n","r","o","d","3">>, <<"c","d","9","b","1","d">>>>,
       <<<<"g","o","l","d","e","n","r","o","d","4">>, <<"8","b","6","9","1","4">>>>,
       <<<<"g","r","a","y">>, <<"b","e","b","e","b","e">>>>,
       <<<<"g","r","a","y","1">>, <<"0","3","0","3","0","3">>>>,
       <<<<"g","r","a","y","1","0">>, <<"1","a","1","a","1","a">>>>,
       <<<<"g","r","a","y","1","1">>, <<"1","c","1","c","1","c">>>>,
       <<<<"g","r","a","y","1","2">>, <<"1","f","1","f","1","f">>>>,
       <<<<"g","r","a","y","1","3">>, <<"2","1","2","1","2","1">>>>,
       <<<<"g","r","a","y","1","4">>, <<"2","4","2","4","2","4">>>>,
       <<<<"g","r","a","y","1","5">>, <<"2","6","2","6","2","6">>>>,
       <<<<"g","r","a","y","1","6">>, <<"2","9","2","9","2","9">>>>,
       <<<<"g","r","a","y","1","7">>, <<"2","b","2","b","2","b">>>>,
       <<<<"g","r","a","y","1","8">>, <<"2","e","2","e","2","e">>>>,
       <<<<"g","r","a","y","1","9">>, <<"3","0","3","0","3","0">>>>,
       <<<<"g","r","a","y","2">>, <<"0","5","0","5","0","5">>>>,
       <<<<"g","r","a","y","2","0">>, <<"3","3","3","3","3","3">>>>,
       <<<<"g","r","a","y","2","1">>, <<"3","6","3","6","3","6">>>>,
       <<<<"g","r","a","y","2","2">>, <<"3","8","3","8","3","8">>>>,
       <<<<"g","r","a","y","2","3">>, <<"3","b","3","b","3","b">>>>,
       <<<<"g","r","a","y","2","4">>, <<"3","d","3","d","3","d">>>>,
       <<<<"g","r","a","y","2","5">>, <<"4","0","4","0","4","0">>>>,
       <<<<"g","r","a","y","2","6">>, <<"4","2","4","2","4","2">>>>,
       <<<<"g","r","a","y","2","7">>, <<"4","5","4","5","4","5">>>>,
       <<<<"g","r","a","y","2","8">>, <<"4","7","4","7","4","7">>>>,
       <<<<"g","r","a","y","2","9">>, <<"4","a","4","a","4","a">>>>,
       <<<<"g","r","a","y","3">>, <<"0","8","0","8","0","8">>>>,
       <<<<"g","r","a","y","3","0">>, <<"4","d","4","d","4","d">>>>,
       <<<<"g","r","a","y","3","1">>, <<"4","f","4","f","4","f">>>>,
       <<<<"g","r","a","y","3","2">>, <<"5","2","5","2","5","2">>>>,
       <<<<"g","r","a","y","3","3">>, <<"5","4","5","4","5","4">>>>,
       <<<<"g","r","a","y","3","4">>, <<"5","7","5","7","5","7">>>>,
       <<<<"g","r","a","y","3","5">>, <<"5","9","5","9","5","9">>>>,
       <<<<"g","r","a","y","3","6">>, <<"5","c","5","c","5","c">>>>,
       <<<<"g","r","a","y","3","7">>, <<"5","e","5","e","5","e">>>>,
       <<<<"g","r","a","y","3","8">>, <<"6","1","6","1","6","1">>>>,
       <<<<"g","r","a","y","3","9">>, <<"6","3","6","3","6","3">>>>,
       <<<<"g","r","a","y","4">>, <<"0","a","0","a","0","a">>>>,
       <<<<"g","r","a","y","4","0">>, <<"6","6","6","6","6","6">>>>,
       <<<<"g","r","a","y","4","1">>, <<"6","9","6","9","6","9">>>>,
       <<<<"g","r","a","y","4","2">>, <<"6","b","6","b","6","b">>>>,
       <<<<"g","r","a","y","4","3">>, <<"6","e","6","e","6","e">>>>,
       <<<<"g","r","a","y","4","4">>, <<"7","0","7","0","7","0">>>>,
       <<<<"g","r","a","y","4","5">>, <<"7","3","7","3","7","3">>>>,
       <<<<"g","r","a","y","4","6">>, <<"7","5","7","5","7","5">>>>,
       <<<<"g","r","a","y","4","7">>, <<"7","8","7","8","7","8">>>>,
       <<<<"g","r","a","y","4","8">>, <<"7","a","7","a","7","a">>>>,
       <<<<"g","r","a","y","4","9">>, <<"7","d","7","d","7","d">>>>,
       <<<<"g","r","a","y","5">>, <<"0","d","0","d","0","d">>>>,
       <<<<"g","r","a","y","5","0">>, <<"7","f","7","f","7","f">>>>,
       <<<<"g","r","a","y","5","1">>, <<"8","2","8","2","8","2">>>>,
       <<<<"g","r","a","y","5","2">>, <<"8","5","8","5","8","5">>>>,
       <<<<"g","r","a","y","5","3">>, <<"8","7","8","7","8","7">>>>,
       <<<<"g","r","a","y","5","4">>, <<"8","a","8","a","8","a">>>>,
       <<<<"g","r","a","y","5","5">>, <<"8","c","8","c","8","c">>>>,
       <<<<"g","r","a","y","5","6">>, <<"8","f","8","f","8","f">>>>,
       <<<<"g","r","a","y","5","7">>, <<"9","1","9","1","9","1">>>>,
       <<<<"g","r","a","y","5","8">>, <<"9","4","9","4","9","4">>>>,
       <<<<"g","r","a","y","5","9">>, <<"9","6","9","6","9","6">>>>,
       <<<<"g","r","a","y","6">>, <<"0","f","0","f","0","f">>>>,
       <<<<"g","r","a","y","6","0">>, <<"9","9","9","9","9","9">>>>,
       <<<<"g","r","a","y","6","1">>, <<"9","c","9","c","9","c">>>>,
       <<<<"g","r","a","y","6","2">>, <<"9","e","9","e","9","e">>>>,
       <<<<"g","r","a","y","6","3">>, <<"a","1","a","1","a","1">>>>,
       <<<<"g","r","a","y","6","4">>, <<"a","3","a","3","a","3">>>>,
       <<<<"g","r","a","y","6","5">>, <<"a","6","a","6","a","6">>>>,
       <<<<"g","r","a","y","6","6">>, <<"a","8","a","8","a","8">>>>,
       <<<<"g","r","a","y","6","7">>, <<"a","b","a","b","a","b">>>>,
       <<<<"g","r","a","y","6","8">>, <<"a","d","a","d","a","d">>>>,
       <<<<"g","r","a","y","6","9">>, <<"b","0","b","0","b","0">>>>,
       <<<<"g","r","a","y","7">>, <<"1","2","1","2","1","2">>>>,
       <<<<"g","r","a","y","7","0">>, <<"b","3","b","3","b","3">>>>,
       <<<<"g","r","a","y","7","1">>, <<"b","5","b","5","b","5">>>>,
       <<<<"g","r","a","y","7","2">>, <<"b","8","b","8","b","8">>>>,
       <<<<"g","r","a","y","7","3">>, <<"b","a","b","a","b","a">>>>,
       <<<<"g","r","a","y","7","4">>, <<"b","d","b","d","b","d">>>>,
       <<<<"g","r","a","y","7","5">>, <<"b","f","b","f","b","f">>>>,
       <<<<"g","r","a","y","7","6">>, <<"c","2","c","2","c","2">>>>,
       <<<<"g","r","a","y","7","7">>, <<"c","4","c","4","c","4">>>>,
       <<<<"g","r","a","y","7","8">>, <<"c","7","c","7","c","7">>>>,
       <<<<"g","r","a","y","7","9">>, <<"c","9","c","9","c","9">>>>,
       <<<<"g","r","a","y","8">>, <<"1","4","1","4","1","4">>>>,
       <<<<"g","r","a","y","8","0">>, <<"c","c","c","c","c","c">>>>,
       <<<<"g","r","a","y","8","1">>, <<"c","f","c","f","c","f">>>>,
       <<<<"g","r","a","y","8","2">>, <<"d","1","d","1","d","1">>>>,
       <<<<"g","r","a","y","8","3">>, <<"d","4","d","4","d","4">>>>,
       <<<<"g","r","a","y","8","4">>, <<"d","6","d","6","d","6">>>>,
       <<<<"g","r","a","y","8","5">>, <<"d","9","d","9","d","9">>>>,
       <<<<"g","r","a","y","8","6">>, <<"d","b","d","b","d","b">>>>,
       <<<<"g","r","a","y","8","7">>, <<"d","e","d","e","d","e">>>>,
       <<<<"g","r","a","y","8","8">>, <<"e","0","e","0","e","0">>>>,
       <<<<"g","r","a","y","8","9">>, <<"e","3","e","3","e","3">>>>,
       <<<<"g","r","a","y","9">>, <<"1","7","1","7","1","7">>>>,
       <<<<"g","r","a","y","9","0">>, <<"e","5","e","5","e","5">>>>,
       <<<<"g","r","a","y","9","1">>, <<"e","8","e","8","e","8">>>>,
       <<<<"g","r","a","y","9","2">>, <<"e","b","e","b","e","b">>>>,
       <<<<"g","r","a","y","9","3">>, <<"e","d","e","d","e","d">>>>,
       <<<<"g","r","a","y","9","4">>, <<"f","0","f","0","f","0">>>>,
       <<<<"g","r","a","y","9","5">>, <<"f","2","f","2","f","2">>>>,
       <<<<"g","r","a","y","9","7">>, <<"f","7","f","7","f","7">>>>,
       <<<<"g","r","a","y","9","8">>, <<"f","a","f","a","f","a">>>>,
       <<<<"g","r","a","y","9","9">>, <<"f","c","f","c","f","c">>>>,
       <<<<"g","r","e","e","n">>, <<"0","0","f","f","0","0">>>>,
       <<<<"g","r","e","e","n","1">>, <<"0","0","f","f","0","0">>>>,
       <<<<"g","r","e","e","n","2">>, <<"0","0","e","e","0","0">>>>,
       <<<<"g","r","e","e","n","3">>, <<"0","0","c","d","0","0">>>>,
       <<<<"g","r","e","e","n","4">>, <<"0","0","8","b","0","0">>>>,
       <<<<"g","r","e","e","n","y","e","l","l","o","w">>, <<"a","d","f","f","2","f">>>>,
       <<<<"h","o","n","e","y","d","e","w","1">>, <<"f","0","f","f","f","0">>>>,
       <<<<"h","o","n","e","y","d","e","w","2">>, <<"e","0","e","e","e","0">>>>,
       <<<<"h","o","n","e","y","d","e","w","3">>, <<"c","1","c","d","c","1">>>>,
       <<<<"h","o","n","e","y","d","e","w","4">>, <<"8","3","8","b","8","3">>>>,
       <<<<"h","o","t","p","i","n","k">>, <<"f","f","6","9","b","4">>>>,
       <<<<"h","o","t","p","i","n","k","1">>, <<"f","f","6","e","b","4">>>>,
       <<<<"h","o","t","p","i","n","k","2">>, <<"e","e","6","a","a","7">>>>,
       <<<<"h","o","t","p","i","n","k","3">>, <<"c","d","6","0","9","0">>>>,
       <<<<"h","o","t","p","i","n","k","4">>, <<"8","b","3","a","6","2">>>>,
       <<<<"i","n","d","i","a","n","r","e","d">>, <<"c","d","5","c","5","c">>>>,
       <<<<"i","n","d","i","a","n","r","e","d","1">>, <<"f","f","6","a","6","a">>>>,
       <<<<"i","n","d","i","a","n","r","e","d","2">>, <<"e","e","6","3","6","3">>>>,
       <<<<"i","n","d","i","a","n","r","e","d","3">>, <<"c","d","5","5","5","5">>>>,
       <<<<"i","n","d","i","a","n","r","e","d","4">>, <<"8","b","3","a","3","a">>>>,
       <<<<"i","v","o","r","y","1">>, <<"f","f","f","f","f","0">>>>,
       <<<<"i","v","o","r","y","2">>, <<"e","e","e","e","e","0">>>>,
       <<<<"i","v","o","r","y","3">>, <<"c","d","c","d","c","1">>>>,
       <<<<"i","v","o","r","y","4">>, <<"8","b","8","b","8","3">>>>,
       <<<<"k","h","a","k","i">>, <<"f","0","e","6","8","c">>>>,
       <<<<"k","h","a","k","i","1">>, <<"f","f","f","6","8","f">>>>,
       <<<<"k","h","a","k","i","2">>, <<"e","e","e","6","8","5">>>>,
       <<<<"k","h","a","k","i","3">>, <<"c","d","c","6","7","3">>>>,
       <<<<"k","h","a","k","i","4">>, <<"8","b","8","6","4","e">>>>,
       <<<<"l","a","v","e","n","d","e","r">>, <<"e","6","e","6","f","a">>>>,
       <<<<"l","a","v","e","n","d","e","r","b","l","u","s","h","1">>, <<"f","f","f","0","f","5">>>>,
       <<<<"l","a","v","e","n","d","e","r","b","l","u","s","h","2">>, <<"e","e","e","0","e","5">>>>,
       <<<<"l","a","v","e","n","d","e","r","b","l","u","s","h","3">>, <<"c","d","c","1","c","5">>>>,
       <<<<"l","a","v","e","n","d","e","r","b","l","u","s","h","4">>, <<"8","b","8","3","8","6">>>>,
       <<<<"l","a","w","n","g","r","e","e","n">>, <<"7","c","f","c","0","0">>>>,
       <<<<"l","e","m","o","n","c","h","i","f","f","o","n","1">>, <<"f","f","f","a","c","d">>>>,
       <<<<"l","e","m","o","n","c","h","i","f","f","o","n","2">>, <<"e","e","e","9","b","f">>>>,
       <<<<"l","e","m","o","n","c","h","i","f","f","o","n","3">>, <<"c","d","c","9","a","5">>>>,
       <<<<"l","e","m","o","n","c","h","i","f","f","o","n","4">>, <<"8","b","8","9","7","0">>>>,
       <<<<"l","i","g","h","t">>, <<"e","e","d","d","8","2">>>>,
       <<<<"l","i","g","h","t","b","l","u","e">>, <<"a","d","d","8","e","6">>>>,
       <<<<"l","i","g","h","t","b","l","u","e","1">>, <<"b","f","e","f","f","f">>>>,
       <<<<"l","i","g","h","t","b","l","u","e","2">>, <<"b","2","d","f","e","e">>>>,
       <<<<"l","i","g","h","t","b","l","u","e","3">>, <<"9","a","c","0","c","d">>>>,
       <<<<"l","i","g","h","t","b","l","u","e","4">>, <<"6","8","8","3","8","b">>>>,
       <<<<"l","i","g","h","t","c","o","r","a","l">>, <<"f","0","8","0","8","0">>>>,
       <<<<"l","i","g","h","t","c","y","a","n","1">>, <<"e","0","f","f","f","f">>>>,
       <<<<"l","i","g","h","t","c","y","a","n","2">>, <<"d","1","e","e","e","e">>>>,
       <<<<"l","i","g","h","t","c","y","a","n","3">>, <<"b","4","c","d","c","d">>>>,
       <<<<"l","i","g","h","t","c","y","a","n","4">>, <<"7","a","8","b","8","b">>>>,
       <<<<"l","i","g","h","t","g","o","l","d","e","n","r","o","d","1">>, <<"f","f","e","c","8","b">>>>,
       <<<<"l","i","g","h","t","g","o","l","d","e","n","r","o","d","2">>, <<"e","e","d","c","8","2">>>>,
       <<<<"l","i","g","h","t","g","o","l","d","e","n","r","o","d","3">>, <<"c","d","b","e","7","0">>>>,
       <<<<"l","i","g","h","t","g","o","l","d","e","n","r","o","d","4">>, <<"8","b","8","1","4","c">>>>,
       <<<<"l","i","g","h","t","g","o","l","d","e","n","r","o","d","y","e","l","l","o","w">>, <<"f","a","f","a","d","2">>>>,
       <<<<"l","i","g","h","t","g","r","a","y">>, <<"d","3","d","3","d","3">>>>,
       <<<<"l","i","g","h","t","p","i","n","k">>, <<"f","f","b","6","c","1">>>>,
       <<<<"l","i","g","h","t","p","i","n","k","1">>, <<"f","f","a","e","b","9">>>>,
       <<<<"l","i","g","h","t","p","i","n","k","2">>, <<"e","e","a","2","a","d">>>>,
       <<<<"l","i","g","h","t","p","i","n","k","3">>, <<"c","d","8","c","9","5">>>>,
       <<<<"l","i","g","h","t","p","i","n","k","4">>, <<"8","b","5","f","6","5">>>>,
       <<<<"l","i","g","h","t","s","a","l","m","o","n","1">>, <<"f","f","a","0","7","a">>>>,
       <<<<"l","i","g","h","t","s","a","l","m","o","n","2">>, <<"e","e","9","5","7","2">>>>,
       <<<<"l","i","g","h","t","s","a","l","m","o","n","3">>, <<"c","d","8","1","6","2">>>>,
       <<<<"l","i","g","h","t","s","a","l","m","o","n","4">>, <<"8","b","5","7","4","2">>>>,
       <<<<"l","i","g","h","t","s","e","a","g","r","e","e","n">>, <<"2","0","b","2","a","a">>>>,
       <<<<"l","i","g","h","t","s","k","y","b","l","u","e">>, <<"8","7","c","e","f","a">>>>,
       <<<<"l","i","g","h","t","s","k","y","b","l","u","e","1">>, <<"b","0","e","2","f","f">>>>,
       <<<<"l","i","g","h","t","s","k","y","b","l","u","e","2">>, <<"a","4","d","3","e","e">>>>,
       <<<<"l","i","g","h","t","s","k","y","b","l","u","e","3">>, <<"8","d","b","6","c","d">>>>,
       <<<<"l","i","g","h","t","s","k","y","b","l","u","e","4">>, <<"6","0","7","b","8","b">>>>,
       <<<<"l","i","g","h","t","s","l","a","t","e","b","l","u","e">>, <<"8","4","7","0","f","f">>>>,
       <<<<"l","i","g","h","t","s","l","a","t","e","g","r","a","y">>, <<"7","7","8","8","9","9">>>>,
       <<<<"l","i","g","h","t","s","t","e","e","l","b","l","u","e">>, <<"b","0","c","4","d","e">>>>,
       <<<<"l","i","g","h","t","s","t","e","e","l","b","l","u","e","1">>, <<"c","a","e","1","f","f">>>>,
       <<<<"l","i","g","h","t","s","t","e","e","l","b","l","u","e","2">>, <<"b","c","d","2","e","e">>>>,
       <<<<"l","i","g","h","t","s","t","e","e","l","b","l","u","e","3">>, <<"a","2","b","5","c","d">>>>,
       <<<<"l","i","g","h","t","s","t","e","e","l","b","l","u","e","4">>, <<"6","e","7","b","8","b">>>>,
       <<<<"l","i","g","h","t","y","e","l","l","o","w","1">>, <<"f","f","f","f","e","0">>>>,
       <<<<"l","i","g","h","t","y","e","l","l","o","w","2">>, <<"e","e","e","e","d","1">>>>,
       <<<<"l","i","g","h","t","y","e","l","l","o","w","3">>, <<"c","d","c","d","b","4">>>>,
       <<<<"l","i","g","h","t","y","e","l","l","o","w","4">>, <<"8","b","8","b","7","a">>>>,
       <<<<"l","i","m","e">>, <<"0","0","f","f","0","0">>>>,
       <<<<"l","i","m","e","g","r","e","e","n">>, <<"3","2","c","d","3","2">>>>,
       <<<<"l","i","n","e","n">>, <<"f","a","f","0","e","6">>>>,
       <<<<"m","a","g","e","n","t","a">>, <<"f","f","0","0","f","f">>>>,
       <<<<"m","a","g","e","n","t","a","2">>, <<"e","e","0","0","e","e">>>>,
       <<<<"m","a","g","e","n","t","a","3">>, <<"c","d","0","0","c","d">>>>,
       <<<<"m","a","g","e","n","t","a","4">>, <<"8","b","0","0","8","b">>>>,
       <<<<"m","a","r","o","o","n">>, <<"b","0","3","0","6","0">>>>,
       <<<<"m","a","r","o","o","n","1">>, <<"f","f","3","4","b","3">>>>,
       <<<<"m","a","r","o","o","n","2">>, <<"e","e","3","0","a","7">>>>,
       <<<<"m","a","r","o","o","n","3">>, <<"c","d","2","9","9","0">>>>,
       <<<<"m","a","r","o","o","n","4">>, <<"8","b","1","c","6","2">>>>,
       <<<<"m","e","d","i","u","m">>, <<"6","6","c","d","a","a">>>>,
       <<<<"m","e","d","i","u","m","a","q","u","a","m","a","r","i","n","e">>, <<"6","6","c","d","a","a">>>>,
       <<<<"m","e","d","i","u","m","b","l","u","e">>, <<"0","0","0","0","c","d">>>>,
       <<<<"m","e","d","i","u","m","o","r","c","h","i","d">>, <<"b","a","5","5","d","3">>>>,
       <<<<"m","e","d","i","u","m","o","r","c","h","i","d","1">>, <<"e","0","6","6","f","f">>>>,
       <<<<"m","e","d","i","u","m","o","r","c","h","i","d","2">>, <<"d","1","5","f","e","e">>>>,
       <<<<"m","e","d","i","u","m","o","r","c","h","i","d","3">>, <<"b","4","5","2","c","d">>>>,
       <<<<"m","e","d","i","u","m","o","r","c","h","i","d","4">>, <<"7","a","3","7","8","b">>>>,
       <<<<"m","e","d","i","u","m","p","u","r","p","l","e">>, <<"9","3","7","0","d","b">>>>,
       <<<<"m","e","d","i","u","m","p","u","r","p","l","e","1">>, <<"a","b","8","2","f","f">>>>,
       <<<<"m","e","d","i","u","m","p","u","r","p","l","e","2">>, <<"9","f","7","9","e","e">>>>,
       <<<<"m","e","d","i","u","m","p","u","r","p","l","e","3">>, <<"8","9","6","8","c","d">>>>,
       <<<<"m","e","d","i","u","m","p","u","r","p","l","e","4">>, <<"5","d","4","7","8","b">>>>,
       <<<<"m","e","d","i","u","m","s","e","a","g","r","e","e","n">>, <<"3","c","b","3","7","1">>>>,
       <<<<"m","e","d","i","u","m","s","l","a","t","e","b","l","u","e">>, <<"7","b","6","8","e","e">>>>,
       <<<<"m","e","d","i","u","m","s","p","r","i","n","g","g","r","e","e","n">>, <<"0","0","f","a","9","a">>>>,
       <<<<"m","e","d","i","u","m","t","u","r","q","u","o","i","s","e">>, <<"4","8","d","1","c","c">>>>,
       <<<<"m","e","d","i","u","m","v","i","o","l","e","t","r","e","d">>, <<"c","7","1","5","8","5">>>>,
       <<<<"m","i","d","n","i","g","h","t","b","l","u","e">>, <<"1","9","1","9","7","0">>>>,
       <<<<"m","i","n","t","c","r","e","a","m">>, <<"f","5","f","f","f","a">>>>,
       <<<<"m","i","s","t","y","r","o","s","e","1">>, <<"f","f","e","4","e","1">>>>,
       <<<<"m","i","s","t","y","r","o","s","e","2">>, <<"e","e","d","5","d","2">>>>,
       <<<<"m","i","s","t","y","r","o","s","e","3">>, <<"c","d","b","7","b","5">>>>,
       <<<<"m","i","s","t","y","r","o","s","e","4">>, <<"8","b","7","d","7","b">>>>,
       <<<<"m","o","c","c","a","s","i","n">>, <<"f","f","e","4","b","5">>>>,
       <<<<"n","a","v","a","j","o","w","h","i","t","e","1">>, <<"f","f","d","e","a","d">>>>,
       <<<<"n","a","v","a","j","o","w","h","i","t","e","2">>, <<"e","e","c","f","a","1">>>>,
       <<<<"n","a","v","a","j","o","w","h","i","t","e","3">>, <<"c","d","b","3","8","b">>>>,
       <<<<"n","a","v","a","j","o","w","h","i","t","e","4">>, <<"8","b","7","9","5","e">>>>,
       <<<<"n","a","v","y">>, <<"0","0","0","0","8","0">>>>,
       <<<<"n","a","v","y","b","l","u","e">>, <<"0","0","0","0","8","0">>>>,
       <<<<"o","l","d","l","a","c","e">>, <<"f","d","f","5","e","6">>>>,
       <<<<"o","l","i","v","e">>, <<"8","0","8","0","0","0">>>>,
       <<<<"o","l","i","v","e","d","r","a","b">>, <<"6","b","8","e","2","3">>>>,
       <<<<"o","l","i","v","e","d","r","a","b","1">>, <<"c","0","f","f","3","e">>>>,
       <<<<"o","l","i","v","e","d","r","a","b","2">>, <<"b","3","e","e","3","a">>>>,
       <<<<"o","l","i","v","e","d","r","a","b","4">>, <<"6","9","8","b","2","2">>>>,
       <<<<"o","r","a","n","g","e">>, <<"f","f","a","5","0","0">>>>,
       <<<<"o","r","a","n","g","e","1">>, <<"f","f","a","5","0","0">>>>,
       <<<<"o","r","a","n","g","e","2">>, <<"e","e","9","a","0","0">>>>,
       <<<<"o","r","a","n","g","e","3">>, <<"c","d","8","5","0","0">>>>,
       <<<<"o","r","a","n","g","e","4">>, <<"8","b","5","a","0","0">>>>,
       <<<<"o","r","a","n","g","e","r","e","d","1">>, <<"f","f","4","5","0","0">>>>,
       <<<<"o","r","a","n","g","e","r","e","d","2">>, <<"e","e","4","0","0","0">>>>,
       <<<<"o","r","a","n","g","e","r","e","d","3">>, <<"c","d","3","7","0","0">>>>,
       <<<<"o","r","a","n","g","e","r","e","d","4">>, <<"8","b","2","5","0","0">>>>,
       <<<<"o","r","c","h","i","d">>, <<"d","a","7","0","d","6">>>>,
       <<<<"o","r","c","h","i","d","1">>, <<"f","f","8","3","f","a">>>>,
       <<<<"o","r","c","h","i","d","2">>, <<"e","e","7","a","e","9">>>>,
       <<<<"o","r","c","h","i","d","3">>, <<"c","d","6","9","c","9">>>>,
       <<<<"o","r","c","h","i","d","4">>, <<"8","b","4","7","8","9">>>>,
       <<<<"p","a","l","e">>, <<"d","b","7","0","9","3">>>>,
       <<<<"p","a","l","e","g","o","l","d","e","n","r","o","d">>, <<"e","e","e","8","a","a">>>>,
       <<<<"p","a","l","e","g","r","e","e","n">>, <<"9","8","f","b","9","8">>>>,
       <<<<"p","a","l","e","g","r","e","e","n","1">>, <<"9","a","f","f","9","a">>>>,
       <<<<"p","a","l","e","g","r","e","e","n","2">>, <<"9","0","e","e","9","0">>>>,
       <<<<"p","a","l","e","g","r","e","e","n","3">>, <<"7","c","c","d","7","c">>>>,
       <<<<"p","a","l","e","g","r","e","e","n","4">>, <<"5","4","8","b","5","4">>>>,
       <<<<"p","a","l","e","t","u","r","q","u","o","i","s","e">>, <<"a","f","e","e","e","e">>>>,
       <<<<"p","a","l","e","t","u","r","q","u","o","i","s","e","1">>, <<"b","b","f","f","f","f">>>>,
       <<<<"p","a","l","e","t","u","r","q","u","o","i","s","e","2">>, <<"a","e","e","e","e","e">>>>,
       <<<<"p","a","l","e","t","u","r","q","u","o","i","s","e","3">>, <<"9","6","c","d","c","d">>>>,
       <<<<"p","a","l","e","t","u","r","q","u","o","i","s","e","4">>, <<"6","6","8","b","8","b">>>>,
       <<<<"p","a","l","e","v","i","o","l","e","t","r","e","d">>, <<"d","b","7","0","9","3">>>>,
       <<<<"p","a","l","e","v","i","o","l","e","t","r","e","d","1">>, <<"f","f","8","2","a","b">>>>,
       <<<<"p","a","l","e","v","i","o","l","e","t","r","e","d","2">>, <<"e","e","7","9","9","f">>>>,
       <<<<"p","a","l","e","v","i","o","l","e","t","r","e","d","3">>, <<"c","d","6","8","8","9">>>>,
       <<<<"p","a","l","e","v","i","o","l","e","t","r","e","d","4">>, <<"8","b","4","7","5","d">>>>,
       <<<<"p","a","p","a","y","a","w","h","i","p">>, <<"f","f","e","f","d","5">>>>,
       <<<<"p","e","a","c","h","p","u","f","f","1">>, <<"f","f","d","a","b","9">>>>,
       <<<<"p","e","a","c","h","p","u","f","f","2">>, <<"e","e","c","b","a","d">>>>,
       <<<<"p","e","a","c","h","p","u","f","f","3">>, <<"c","d","a","f","9","5">>>>,
       <<<<"p","e","a","c","h","p","u","f","f","4">>, <<"8","b","7","7","6","5">>>>,
       <<<<"p","i","n","k">>, <<"f","f","c","0","c","b">>>>,
       <<<<"p","i","n","k","1">>, <<"f","f","b","5","c","5">>>>,
       <<<<"p","i","n","k","2">>, <<"e","e","a","9","b","8">>>>,
       <<<<"p","i","n","k","3">>, <<"c","d","9","1","9","e">>>>,
       <<<<"p","i","n","k","4">>, <<"8","b","6","3","6","c">>>>,
       <<<<"p","l","u","m">>, <<"d","d","a","0","d","d">>>>,
       <<<<"p","l","u","m","1">>, <<"f","f","b","b","f","f">>>>,
       <<<<"p","l","u","m","2">>, <<"e","e","a","e","e","e">>>>,
       <<<<"p","l","u","m","3">>, <<"c","d","9","6","c","d">>>>,
       <<<<"p","l","u","m","4">>, <<"8","b","6","6","8","b">>>>,
       <<<<"p","o","w","d","e","r","b","l","u","e">>, <<"b","0","e","0","e","6">>>>,
       <<<<"p","u","r","p","l","e">>, <<"a","0","2","0","f","0">>>>,
       <<<<"r","e","b","e","c","c","a","p","u","r","p","l","e">>, <<"6","6","3","3","9","9">>>>,
       <<<<"p","u","r","p","l","e","1">>, <<"9","b","3","0","f","f">>>>,
       <<<<"p","u","r","p","l","e","2">>, <<"9","1","2","c","e","e">>>>,
       <<<<"p","u","r","p","l","e","3">>, <<"7","d","2","6","c","d">>>>,
       <<<<"p","u","r","p","l","e","4">>, <<"5","5","1","a","8","b">>>>,
       <<<<"r","e","d">>, <<"f","f","0","0","0","0">>>>,
       <<<<"r","e","d","1">>, <<"f","f","0","0","0","0">>>>,
       <<<<"r","e","d","2">>, <<"e","e","0","0","0","0">>>>,
       <<<<"r","e","d","3">>, <<"c","d","0","0","0","0">>>>,
       <<<<"r","e","d","4">>, <<"8","b","0","0","0","0">>>>,
       <<<<"r","o","s","y","b","r","o","w","n">>, <<"b","c","8","f","8","f">>>>,
       <<<<"r","o","s","y","b","r","o","w","n","1">>, <<"f","f","c","1","c","1">>>>,
       <<<<"r","o","s","y","b","r","o","w","n","2">>, <<"e","e","b","4","b","4">>>>,
       <<<<"r","o","s","y","b","r","o","w","n","3">>, <<"c","d","9","b","9","b">>>>,
       <<<<"r","o","s","y","b","r","o","w","n","4">>, <<"8","b","6","9","6","9">>>>,
       <<<<"r","o","y","a","l","b","l","u","e">>, <<"4","1","6","9","e","1">>>>,
       <<<<"r","o","y","a","l","b","l","u","e","1">>, <<"4","8","7","6","f","f">>>>,
       <<<<"r","o","y","a","l","b","l","u","e","2">>, <<"4","3","6","e","e","e">>>>,
       <<<<"r","o","y","a","l","b","l","u","e","3">>, <<"3","a","5","f","c","d">>>>,
       <<<<"r","o","y","a","l","b","l","u","e","4">>, <<"2","7","4","0","8","b">>>>,
       <<<<"s","a","d","d","l","e","b","r","o","w","n">>, <<"8","b","4","5","1","3">>>>,
       <<<<"s","a","l","m","o","n">>, <<"f","a","8","0","7","2">>>>,
       <<<<"s","a","l","m","o","n","1">>, <<"f","f","8","c","6","9">>>>,
       <<<<"s","a","l","m","o","n","2">>, <<"e","e","8","2","6","2">>>>,
       <<<<"s","a","l","m","o","n","3">>, <<"c","d","7","0","5","4">>>>,
       <<<<"s","a","l","m","o","n","4">>, <<"8","b","4","c","3","9">>>>,
       <<<<"s","a","n","d","y","b","r","o","w","n">>, <<"f","4","a","4","6","0">>>>,
       <<<<"s","e","a","g","r","e","e","n","1">>, <<"5","4","f","f","9","f">>>>,
       <<<<"s","e","a","g","r","e","e","n","2">>, <<"4","e","e","e","9","4">>>>,
       <<<<"s","e","a","g","r","e","e","n","3">>, <<"4","3","c","d","8","0">>>>,
       <<<<"s","e","a","g","r","e","e","n","4">>, <<"2","e","8","b","5","7">>>>,
       <<<<"s","e","a","s","h","e","l","l","1">>, <<"f","f","f","5","e","e">>>>,
       <<<<"s","e","a","s","h","e","l","l","2">>, <<"e","e","e","5","d","e">>>>,
       <<<<"s","e","a","s","h","e","l","l","3">>, <<"c","d","c","5","b","f">>>>,
       <<<<"s","e","a","s","h","e","l","l","4">>, <<"8","b","8","6","8","2">>>>,
       <<<<"s","i","e","n","n","a">>, <<"a","0","5","2","2","d">>>>,
       <<<<"s","i","e","n","n","a","1">>, <<"f","f","8","2","4","7">>>>,
       <<<<"s","i","e","n","n","a","2">>, <<"e","e","7","9","4","2">>>>,
       <<<<"s","i","e","n","n","a","3">>, <<"c","d","6","8","3","9">>>>,
       <<<<"s","i","e","n","n","a","4">>, <<"8","b","4","7","2","6">>>>,
       <<<<"s","i","l","v","e","r">>, <<"c","0","c","0","c","0">>>>,
       <<<<"s","k","y","b","l","u","e">>, <<"8","7","c","e","e","b">>>>,
       <<<<"s","k","y","b","l","u","e","1">>, <<"8","7","c","e","f","f">>>>,
       <<<<"s","k","y","b","l","u","e","2">>, <<"7","e","c","0","e","e">>>>,
       <<<<"s","k","y","b","l","u","e","3">>, <<"6","c","a","6","c","d">>>>,
       <<<<"s","k","y","b","l","u","e","4">>, <<"4","a","7","0","8","b">>>>,
       <<<<"s","l","a","t","e","b","l","u","e">>, <<"6","a","5","a","c","d">>>>,
       <<<<"s","l","a","t","e","b","l","u","e","1">>, <<"8","3","6","f","f","f">>>>,
       <<<<"s","l","a","t","e","b","l","u","e","2">>, <<"7","a","6","7","e","e">>>>,
       <<<<"s","l","a","t","e","b","l","u","e","3">>, <<"6","9","5","9","c","d">>>>,
       <<<<"s","l","a","t","e","b","l","u","e","4">>, <<"4","7","3","c","8","b">>>>,
       <<<<"s","l","a","t","e","g","r","a","y">>, <<"7","0","8","0","9","0">>>>,
       <<<<"s","l","a","t","e","g","r","a","y","1">>, <<"c","6","e","2","f","f">>>>,
       <<<<"s","l","a","t","e","g","r","a","y","2">>, <<"b","9","d","3","e","e">>>>,
       <<<<"s","l","a","t","e","g","r","a","y","3">>, <<"9","f","b","6","c","d">>>>,
       <<<<"s","l","a","t","e","g","r","a","y","4">>, <<"6","c","7","b","8","b">>>>,
       <<<<"s","n","o","w","1">>, <<"f","f","f","a","f","a">>>>,
       <<<<"s","n","o","w","2">>, <<"e","e","e","9","e","9">>>>,
       <<<<"s","n","o","w","3">>, <<"c","d","c","9","c","9">>>>,
       <<<<"s","n","o","w","4">>, <<"8","b","8","9","8","9">>>>,
       <<<<"s","p","r","i","n","g","g","r","e","e","n","1">>, <<"0","0","f","f","7","f">>>>,
       <<<<"s","p","r","i","n","g","g","r","e","e","n","2">>, <<"0","0","e","e","7","6">>>>,
       <<<<"s","p","r","i","n","g","g","r","e","e","n","3">>, <<"0","0","c","d","6","6">>>>,
       <<<<"s","p","r","i","n","g","g","r","e","e","n","4">>, <<"0","0","8","b","4","5">>>>,
       <<<<"s","t","e","e","l","b","l","u","e">>, <<"4","6","8","2","b","4">>>>,
       <<<<"s","t","e","e","l","b","l","u","e","1">>, <<"6","3","b","8","f","f">>>>,
       <<<<"s","t","e","e","l","b","l","u","e","2">>, <<"5","c","a","c","e","e">>>>,
       <<<<"s","t","e","e","l","b","l","u","e","3">>, <<"4","f","9","4","c","d">>>>,
       <<<<"s","t","e","e","l","b","l","u","e","4">>, <<"3","6","6","4","8","b">>>>,
       <<<<"t","a","n">>, <<"d","2","b","4","8","c">>>>,
       <<<<"t","a","n","1">>, <<"f","f","a","5","4","f">>>>,
       <<<<"t","a","n","2">>, <<"e","e","9","a","4","9">>>>,
       <<<<"t","a","n","3">>, <<"c","d","8","5","3","f">>>>,
       <<<<"t","a","n","4">>, <<"8","b","5","a","2","b">>>>,
       <<<<"t","e","a","l">>, <<"0","0","8","0","8","0">>>>,
       <<<<"t","h","i","s","t","l","e">>, <<"d","8","b","f","d","8">>>>,
       <<<<"t","h","i","s","t","l","e","1">>, <<"f","f","e","1","f","f">>>>,
       <<<<"t","h","i","s","t","l","e","2">>, <<"e","e","d","2","e","e">>>>,
       <<<<"t","h","i","s","t","l","e","3">>, <<"c","d","b","5","c","d">>>>,
       <<<<"t","h","i","s","t","l","e","4">>, <<"8","b","7","b","8","b">>>>,
       <<<<"t","o","m","a","t","o","1">>, <<"f","f","6","3","4","7">>>>,
       <<<<"t","o","m","a","t","o","2">>, <<"e","e","5","c","4","2">>>>,
       <<<<"t","o","m","a","t","o","3">>, <<"c","d","4","f","3","9">>>>,
       <<<<"t","o","m","a","t","o","4">>, <<"8","b","3","6","2","6">>>>,
       <<<<"t","u","r","q","u","o","i","s","e">>, <<"4","0","e","0","d","0">>>>,
       <<<<"t","u","r","q","u","o","i","s","e","1">>, <<"0","0","f","5","f","f">>>>,
       <<<<"t","u","r","q","u","o","i","s","e","2">>, <<"0","0","e","5","e","e">>>>,
       <<<<"t","u","r","q","u","o","i","s","e","3">>, <<"0","0","c","5","c","d">>>>,
       <<<<"t","u","r","q","u","o","i","s","e","4">>, <<"0","0","8","6","8","b">>>>,
       <<<<"v","i","o","l","e","t">>, <<"e","e","8","2","e","e">>>>,
       <<<<"v","i","o","l","e","t","r","e","d">>, <<"d","0","2","0","9","0">>>>,
       <<<<"v","i","o","l","e","t","r","e","d","1">>, <<"f","f","3","e","9","6">>>>,
       <<<<"v","i","o","l","e","t","r","e","d","2">>, <<"e","e","3","a","8","c">>>>,
       <<<<"v","i","o","l","e","t","r","e","d","3">>, <<"c","d","3","2","7","8">>>>,
       <<<<"v","i","o","l","e","t","r","e","d","4">>, <<"8","b","2","2","5","2">>>>,
       <<<<"w","h","e","a","t">>, <<"f","5","d","e","b","3">>>>,
       <<<<"w","h","e","a","t","1">>, <<"f","f","e","7","b","a">>>>,
       <<<<"w","h","e","a","t","2">>, <<"e","e","d","8","a","e">>>>,
       <<<<"w","h","e","a","t","3">>, <<"c","d","b","a","9","6">>>>,
       <<<<"w","h","e","a","t","4">>, <<"8","b","7","e","6","6">>>>,
       <<<<"w","h","i","t","e">>, <<"f","f","f","f","f","f">>>>,
       <<<<"w","h","i","t","e","s","m","o","k","e">>, <<"f","5","f","5","f","5">>>>,
       <<<<"y","e","l","l","o","w">>, <<"f","f","f","f","0","0">>>>,
       <<<<"y","e","l","l","o","w","1">>, <<"f","f","f","f","0","0">>>>,
       <<<<"y","e","l","l","o","w","2">>, <<"e","e","e","e","0","0">>>>,
       <<<<"y","e","l","l","o","w","3">>, <<"c","d","c","d","0","0">>>>,
       <<<<"y","e","l","l","o","w","4">>, <<"8","b","8","b","0","0">>>>,
       <<<<"y","e","l","l","o","w","g","r","e","e","n">>, <<"9","a","c","d","3","2">>>>
    >>

----------------------------------------------------------------------------
\* The parse tree of html_parser: Node::Text, Node::Element, Node::Comment.

NoAttributes == [a \in {} |-> None]

Text(t) ==
    [kind |-> "Text", text |-> t, name |-> "", attributes |-> NoAttributes,
     classes |-> <<>>, children |-> <<>>]
Comment(t) ==
    [kind |-> "Comment", text |-> t, name |-> "", attributes |-> NoAttributes,
     classes |-> <<>>, children |-> <<>>]
Element(name, attributes, classes, children) ==
    [kind |-> "Element", text |-> <<>>, name |-> name, attributes |-> attributes,
     classes |-> classes, children |-> children]

Br == Element("br", NoAttributes, <<>>, <<>>)

\* Attribute maps of the parse tree: name -> Option<String>.
Attr1(a, v) == a :> v
Attr2(a, v, b, w) == (a :> v) @@ (b :> w)

red == <<"r","e","d">>
blue == <<"b","l","u","e">>
Arial == <<"A","r","i","a","l">>

\* Opening tags of the bounded inputs: [name, attributes, classes].
Tag(name, attributes, classes) ==
    [name |-> name, attributes |-> attributes, classes |-> classes]

Tags ==
    { Tag("b", NoAttributes, <<>>),
      Tag("font", Attr1("color", Some(red)), <<>>),
      Tag("font", Attr2("color", Some(blue), "face", Some(Arial)), <<"test">>) }

Texts == { <<"x">>, <<"y","z">> }

\* Nodes without children: text, comment, br (a void element) and empty elements.
Leaves ==
    {Text(t) : t \in Texts} \cup {Comment(<<"c">>), Br}
        \cup {Element(t.name, t.attributes, t.classes, <<>>) : t \in Tags}

\* The parser merges adjacent character data into one text node.
Adjacent(t, f) == f # <<>> /\ t.kind = "Text" /\ f[1].kind = "Text"

\* Trees(n): the trees of exactly n nodes; Forests(n): the sibling lists of
\* exactly n nodes in total.
RECURSIVE Trees(_)
RECURSIVE Forests(_)
Trees(n) ==
    IF n = 1 THEN Leaves
    ELSE {Element(t.name, t.attributes, t.classes, c) : t \in Tags, c \in Forests(n - 1)}
Forests(n) ==
    IF n = 0 THEN {<<>>}
    ELSE UNION { LET first == Trees(m)
                     rest == Forests(n - m)
                 IN  { <<p[1]>> \o p[2] :
                         p \in {q \in first \X rest : ~Adjacent(q[1], q[2])} }
                 : m \in 1..n }

\* The sibling lists of at most n nodes in total.
Doms(n) == UNION {Forests(m) : m \in 0..n}

\* The fragment of the documentation example, line 18:
\* <font color="red">test</font><br>
\* <font class="test" color="#48D1CC">TE<b>S</b>T<br/>TEST</font>
MediumTurquoise == <<"#","4","8","D","1","C","C">>
Fixture ==
    << Element("font", Attr1("color", Some(red)), <<>>, <<Text(<<"t","e","s","t">>)>>),
       Br,
       Element("font", Attr1("color", Some(MediumTurquoise)), <<"test">>,
               << Text(<<"T","E">>),
                  Element("b", NoAttributes, <<>>, <<Text(<<"S">>)>>),
                  Text(<<"T">>),
                  Br,
                  Text(<<"T","E","S","T">>) >>) >>

----------------------------------------------------------------------------
\* HtmlFlatData and HfdElement.

HtmlFlatData(text, element) == [text |-> text, element |-> element]

\* read_node, lines 77-91: the HfdElement of an element; an attribute without
\* a value becomes the empty string.
unwrap_or_default(v) == IF v = None THEN <<>> ELSE v[1]
HfdElement_without_classes(element) ==
    [name |-> element.name,
     attributes |-> [a \in DOMAIN element.attributes |->
                        unwrap_or_default(element.attributes[a])],
     classes |-> <<>>]

HfdElement(element) ==
    [name |-> element.name,
     attributes |-> [a \in DOMAIN element.attributes |->
                        unwrap_or_default(element.attributes[a])],
     classes |-> element.classes]

\* read_node, lines 58-59, 73-74: a fresh accumulator under the inherited sequence.
NewData(parent_element) == HtmlFlatData(<<>>, parent_element)

ResetData_without_parent(parent_element) == HtmlFlatData(<<>>, <<>>)

\* read_node, lines 97-98: the accumulator after the recursive call returned.
ResetData(parent_element) == HtmlFlatData(<<>>, parent_element)

\* read_node, line 64.
AppendText(d, text) == [d EXCEPT !.text = @ \o text]

\* Variant of AppendBr: the line break is not appended.
AppendBr_skipped(d) == d

\* read_node, line 68.
AppendBr(d) == [d EXCEPT !.text = @ \o <<"\n">>]

\* Variant of FlushBeforeElement: the accumulator is reset without being pushed.
FlushBeforeElement_dropped(f) ==
    IF f.data.text # <<>>
    THEN [f EXCEPT !.data = NewData(f.parent_element)]
    ELSE f

\* Variant of FlushBeforeElement: no flush before an element without children.
FlushBeforeElement_unless_empty(f) ==
    IF f.data.text # <<>> /\ f.node_list[f.pos].children # <<>>
    THEN [f EXCEPT !.result = Append(@, f.data), !.data = NewData(f.parent_element)]
    ELSE f

\* read_node, lines 71-75: flush the accumulator before an element.
FlushBeforeElement(f) ==
    IF f.data.text # <<>>
    THEN [f EXCEPT !.result = Append(@, f.data), !.data = NewData(f.parent_element)]
    ELSE f

\* read_node, line 92.
PushElement(d, elm) == [d EXCEPT !.element = Append(@, elm)]

\* Variant of ReadNodeResult: the accumulator is pushed whatever its text.
ReadNodeResult_unconditional(f) ==
    IF f.node_list = <<>> THEN <<>> ELSE Append(f.result, f.data)

\* read_node, lines 54-56 and 103-106: the value the call returns.
ReadNodeResult(f) ==
    IF f.node_list = <<>> THEN <<>>
    ELSE IF f.data.text # <<>> THEN Append(f.result, f.data)
    ELSE f.result

\* A call of read_node: its arguments, its loop position and its locals.
Frame(node_list, parent_element) ==
    [node_list |-> node_list, parent_element |-> parent_element, pos |-> 1,
     data |-> NewData(parent_element), result |-> <<>>]

\* Variant of AfterChild: the accumulator keeps the child's extended sequence.
AfterChild_not_reset(f, children) ==
    [f EXCEPT !.result = @ \o children, !.pos = @ + 1]

\* Variant of AfterChild: the child's sequence was built in the inherited one.
AfterChild_shared_sequence(f, children) ==
    [f EXCEPT !.result = @ \o children,
              !.parent_element = f.data.element,
              !.data = ResetData(f.data.element),
              !.pos = @ + 1]

\* read_node, lines 94-98: back in the caller after the recursive call.
AfterChild(f, children) ==
    [f EXCEPT !.result = @ \o children,
              !.data = ResetData(f.parent_element),
              !.pos = @ + 1]

Top == stack[Len(stack)]
Node == Top.node_list[Top.pos]
InLoop == pc = "read_node" /\ Top.node_list # <<>> /\ Top.pos <= Len(Top.node_list)
SetTop(f) == [stack EXCEPT ![Len(stack)] = f]

----------------------------------------------------------------------------
\* f64 parsing (str::parse::<f64>) on the characters of the model: an optional
\* sign, then digits with at most one '.', at least one digit in all.  The
\* inputs of the model hold no exponent and no "inf" or "nan" spelling.  The
\* number is kept as a fixed-point integer in units of 10^-MaxSizeLen.

Digits == <<"0","1","2","3","4","5","6","7","8","9">>
DigitSet == {Digits[i] : i \in 1..10}
IsDigit(c) == c \in DigitSet
DigitValue(c) == (CHOOSE i \in 1..10 : Digits[i] = c) - 1

RECURSIVE Pow10(_)
Pow10(n) == IF n = 0 THEN 1 ELSE 10 * Pow10(n - 1)

RECURSIVE Decimal(_)
Decimal(ds) ==
    IF ds = <<>> THEN 0
    ELSE 10 * Decimal(SubSeq(ds, 1, Len(ds) - 1)) + DigitValue(ds[Len(ds)])

parse_f64(s) ==
    LET signed == s # <<>> /\ s[1] \in {"+", "-"}
        body == IF signed THEN Tail(s) ELSE s
        dots == {i \in 1..Len(body) : body[i] = "."}
        ds == SelectSeq(body, IsDigit)
        fraction == IF dots = {} THEN 0 ELSE Len(body) - (CHOOSE i \in dots : TRUE)
        wellformed ==
            /\ \A i \in 1..Len(body) : IsDigit(body[i]) \/ body[i] = "."
            /\ Cardinality(dots) <= 1
            /\ ds # <<>>
        magnitude == Decimal(ds) * Pow10(MaxSizeLen - fraction)
    IN  IF wellformed
        THEN Some(IF signed /\ s[1] = "-" THEN 0 - magnitude ELSE magnitude)
        ELSE None

----------------------------------------------------------------------------
\* HfdElement's methods and the default policy DataAnalysis.

has_name(element, name) == element.name = name

get_by_name_and_attribute_any_name(element, name, attribute) ==
    IF attribute \in DOMAIN element.attributes
    THEN Some(element.attributes[attribute])
    ELSE None

get_by_name_and_attribute_non_empty(element, name, attribute) ==
    IF attribute \in DOMAIN element.attributes /\ element.name = name
           /\ element.attributes[attribute] # <<>>
    THEN Some(element.attributes[attribute])
    ELSE None

get_by_name_and_attribute(element, name, attribute) ==
    IF attribute \in DOMAIN element.attributes /\ element.name = name
    THEN Some(element.attributes[attribute])
    ELSE None

contains_class(element, class) == \E i \in 1..Len(element.classes) : element.classes[i] = class

\* Iterator::find_map over a sequence of Option values: the first Some.
find_map(options) ==
    LET hits == {i \in 1..Len(options) : options[i] # None}
    IN  IF hits = {} THEN None
        ELSE options[CHOOSE i \in hits : \A j \in hits : i <= j]

\* Iterator::flat_map over Option values: the values of the Some entries, in order.
RECURSIVE flat_map(_)
flat_map(options) ==
    IF options = <<>> THEN <<>>
    ELSE Head(options) \o flat_map(Tail(options))

\* Variant of font_name: the innermost matching ancestor wins.
font_name_innermost(html_flat_data) ==
    find_map([i \in 1..Len(html_flat_data.element) |->
                get_by_name_and_attribute(
                    html_flat_data.element[Len(html_flat_data.element) + 1 - i],
                    "font", "face")])

font_name(html_flat_data) ==
    find_map([i \in 1..Len(html_flat_data.element) |->
                get_by_name_and_attribute(html_flat_data.element[i], "font", "face")])

\* The closure of size: the attribute, then parse::<f64>().ok().
size_of_element(element) ==
    LET v == get_by_name_and_attribute(element, "font", "size")
    IN  IF v = None THEN None ELSE parse_f64(v[1])

\* Variant of size: the first font ancestor with a size attribute decides,
\* whether the attribute parses or not.
size_first_attribute(html_flat_data) ==
    LET v == find_map([i \in 1..Len(html_flat_data.element) |->
                 get_by_name_and_attribute(html_flat_data.element[i], "font", "size")])
    IN  IF v = None THEN None ELSE parse_f64(v[1])

size(html_flat_data) ==
    find_map([i \in 1..Len(html_flat_data.element) |->
                size_of_element(html_flat_data.element[i])])

\* Variant of normalize_color: one leading '#' is removed (strip_prefix).
normalize_color_one_hash(v) ==
    to_uppercase(IF v # <<>> /\ Head(v) = "#" THEN Tail(v) ELSE v)

\* color, line 236.
normalize_color(v) == to_uppercase(trim_start_matches(v, "#"))

\* color, line 240: key.to_uppercase() of every table entry (the same at every call).
key_to_uppercase == [i \in 1..Len(COLOR_MAP) |-> to_uppercase(COLOR_MAP[i][1])]

\* Variant of lookup_color: the keys are compared as stored.
lookup_color_case_sensitive(color) ==
    LET hits == {i \in 1..Len(COLOR_MAP) : COLOR_MAP[i][1] = color}
    IN  IF hits # {}
        THEN Some(to_uppercase(COLOR_MAP[CHOOSE i \in hits : \A j \in hits : i <= j][2]))
        ELSE Some(color)

\* Variant of lookup_color: a token that is no key is rejected.
lookup_color_rejecting(color) ==
    LET hits == {i \in 1..Len(COLOR_MAP) : key_to_uppercase[i] = color}
    IN  IF hits # {}
        THEN Some(to_uppercase(COLOR_MAP[CHOOSE i \in hits : \A j \in hits : i <= j][2]))
        ELSE None

\* color, lines 237-242: the value of the first table entry whose upper-cased
\* key is the token, upper-cased; else the token itself.
lookup_color(color) ==
    LET hits == {i \in 1..Len(COLOR_MAP) : key_to_uppercase[i] = color}
    IN  IF hits # {}
        THEN Some(to_uppercase(COLOR_MAP[CHOOSE i \in hits : \A j \in hits : i <= j][2]))
        ELSE Some(color)

\* Variant of color: the innermost font ancestor with a color attribute wins.
color_innermost(html_flat_data) ==
    LET values == flat_map([i \in 1..Len(html_flat_data.element) |->
                     get_by_name_and_attribute(
                         html_flat_data.element[Len(html_flat_data.element) + 1 - i],
                         "font", "color")])
    IN  find_map([i \in 1..Len(values) |-> lookup_color(normalize_color(values[i]))])

color(html_flat_data) ==
    LET values == flat_map([i \in 1..Len(html_flat_data.element) |->
                     get_by_name_and_attribute(html_flat_data.element[i], "font", "color")])
    IN  find_map([i \in 1..Len(values) |-> lookup_color(normalize_color(values[i]))])

is_tag_innermost(html_flat_data, tag) ==
    /\ html_flat_data.element # <<>>
    /\ has_name(html_flat_data.element[Len(html_flat_data.element)], tag)

is_tag(html_flat_data, tag) ==
    \E i \in 1..Len(html_flat_data.element) : has_name(html_flat_data.element[i], tag)

is_bold(html_flat_data) == is_tag(html_flat_data, "b") \/ is_tag(html_flat_data, "strong")
is_italic(html_flat_data) == is_tag(html_flat_data, "i") \/ is_tag(html_flat_data, "em")
is_underline(html_flat_data) == is_tag(html_flat_data, "u") \/ is_tag(html_flat_data, "ins")
is_superscript(html_flat_data) == is_tag(html_flat_data, "sup")
is_subscript(html_flat_data) == is_tag(html_flat_data, "sub")
is_strikethrough(html_flat_data) == is_tag(html_flat_data, "del")

\* make_rich_text, lines 113-121: the nine facets of one run.
Facets(html_flat_data) ==
    [font_name |-> font_name(html_flat_data),
     size |-> size(html_flat_data),
     color |-> color(html_flat_data),
     is_bold |-> is_bold(html_flat_data),
     is_italic |-> is_italic(html_flat_data),
     is_underline |-> is_underline(html_flat_data),
     is_superscript |-> is_superscript(html_flat_data),
     is_subscript |-> is_subscript(html_flat_data),
     is_strikethrough |-> is_strikethrough(html_flat_data)]

NoFacets ==
    [font_name |-> None, size |-> None, color |-> None, is_bold |-> FALSE,
     is_italic |-> FALSE, is_underline |-> FALSE, is_superscript |-> FALSE,
     is_subscript |-> FALSE, is_strikethrough |-> FALSE]

\* Font::default(): every property unset.
DefaultFont ==
    [name |-> None, size |-> None, color |-> None, bold |-> None, italic |-> None,
     underline |-> None, vertical_text_alignment |-> None, strikethrough |-> None]

BuildFont_explicit(f) ==
    LET f1 == [DefaultFont EXCEPT !.name = Some(unwrap_or_default(f.font_name))]
        f2 == IF f.size # None THEN [f1 EXCEPT !.size = f.size] ELSE f1
        f3 == IF f.color # None THEN [f2 EXCEPT !.color = f.color] ELSE f2
        f4 == [f3 EXCEPT !.bold = Some(f.is_bold)]
        f5 == [f4 EXCEPT !.italic = Some(f.is_italic)]
        f6 == IF f.is_underline THEN [f5 EXCEPT !.underline = Some("Single")] ELSE f5
        f7 == IF f.is_superscript
              THEN [f6 EXCEPT !.vertical_text_alignment = Some("Superscript")] ELSE f6
        f8 == IF f.is_subscript
              THEN [f7 EXCEPT !.vertical_text_alignment = Some("Subscript")] ELSE f7
    IN  [f8 EXCEPT !.strikethrough = Some(f.is_strikethrough)]

\* make_rich_text, lines 123-161: the setters called for one run, in order.
BuildFont(f) ==
    LET f1 == IF f.font_name # None THEN [DefaultFont EXCEPT !.name = f.font_name]
              ELSE DefaultFont
        f2 == IF f.size # None THEN [f1 EXCEPT !.size = f.size] ELSE f1
        f3 == IF f.color # None THEN [f2 EXCEPT !.color = f.color] ELSE f2
        f4 == IF f.is_bold THEN [f3 EXCEPT !.bold = Some(f.is_bold)] ELSE f3
        f5 == IF f.is_italic THEN [f4 EXCEPT !.italic = Some(f.is_italic)] ELSE f4
        f6 == IF f.is_underline THEN [f5 EXCEPT !.underline = Some("Single")] ELSE f5
        f7 == IF f.is_superscript
              THEN [f6 EXCEPT !.vertical_text_alignment = Some("Superscript")] ELSE f6
        f8 == IF f.is_subscript
              THEN [f7 EXCEPT !.vertical_text_alignment = Some("Subscript")] ELSE f7
    IN  IF f.is_strikethrough THEN [f8 EXCEPT !.strikethrough = Some(f.is_strikethrough)]
        ELSE f8

TextElement_without_text(text, font) == [text |-> <<>>, run_properties |-> font]

\* make_rich_text, lines 163-165.
TextElement(text, font) == [text |-> text, run_properties |-> font]

----------------------------------------------------------------------------
\* The objects of src/structs before any operation on them.

\* NonVisualDrawingProperties::default(): no property has a value.
DefaultProperties == [name |-> None, id |-> None, hidden |-> None, shape_id |-> None]

\* A quick_xml reader: the events of its input, how many of them have been
\* read, and the object set_attributes is called on.
Reader(events, self) == [events |-> events, pos |-> 0, self |-> self]

\* Stylesheet::default() and Style::default().
DefaultStylesheet ==
    [numbering_formats |-> <<>>, fonts |-> <<>>, fills |-> <<>>, borders |-> <<>>,
     cell_style_formats |-> <<>>, cell_formats |-> <<>>]
DefaultStyle ==
    [numbering_format |-> None, font |-> None, fill |-> None, borders |-> None,
     alignment |-> None]

StructsUnused ==
    /\ ole_object = <<>>
    /\ r_id = 0
    /\ writer = <<>>
    /\ properties = DefaultProperties
    /\ reader = Reader(<<>>, DefaultProperties)
    /\ stylesheet = DefaultStylesheet
    /\ style = DefaultStyle

----------------------------------------------------------------------------

\* The conversion, html_to_richtext_custom with the default policy.

NoHtml == [ok |-> FALSE, children |-> <<>>]

Init ==
    /\ html \in {[ok |-> TRUE, children |-> f] : f \in Doms(MaxNodes) \cup {Fixture}}
                   \cup {NoHtml}
    /\ pc = "start"
    /\ stack = <<>>
    /\ data = <<>>
    /\ k = 1
    /\ facets = NoFacets
    /\ result = <<>>
    /\ ret = None
    /\ other = None
    /\ StructsUnused

ParseErr_default_dom ==
    /\ pc = "start"
    /\ ~html.ok
    /\ pc' = "read_node"
    /\ stack' = <<Frame(<<>>, <<>>)>>
    /\ UNCHANGED <<html, data, k, facets, result, ret, other, structVars>>

\* Line 45: Dom::parse fails and `?` returns the error.
ParseErr ==
    /\ pc = "start"
    /\ ~html.ok
    /\ pc' = "done"
    /\ ret' = Some([ok |-> FALSE, value |-> <<>>])
    /\ UNCHANGED <<html, stack, data, k, facets, result, other, structVars>>

\* Lines 45-46: Dom::parse succeeds; read_node is called on the root siblings.
ParseOk ==
    /\ pc = "start"
    /\ html.ok
    /\ pc' = "read_node"
    /\ stack' = <<Frame(html.children, <<>>)>>
    /\ UNCHANGED <<html, data, k, facets, result, ret, other, structVars>>

\* Lines 63-65.
NodeText ==
    /\ InLoop
    /\ Node.kind = "Text"
    /\ stack' = SetTop([Top EXCEPT !.data = AppendText(@, Node.text), !.pos = @ + 1])
    /\ UNCHANGED <<html, pc, data, k, facets, result, ret, other, structVars>>

\* Lines 67-70.
NodeBr ==
    /\ InLoop
    /\ Node.kind = "Element"
    /\ Node.name = "br"
    /\ stack' = SetTop([Top EXCEPT !.data = AppendBr(@), !.pos = @ + 1])
    /\ UNCHANGED <<html, pc, data, k, facets, result, ret, other, structVars>>

\* Lines 71-94: flush, extend the accumulator's sequence, recurse.
NodeElement ==
    /\ InLoop
    /\ Node.kind = "Element"
    /\ Node.name # "br"
    /\ LET flushed == FlushBeforeElement(Top)
           caller == [flushed EXCEPT !.data = PushElement(@, HfdElement(Node))]
       IN  stack' = Append(SetTop(caller), Frame(Node.children, caller.data.element))
    /\ UNCHANGED <<html, pc, data, k, facets, result, ret, other, structVars>>

\* Line 100.
NodeOther ==
    /\ InLoop
    /\ Node.kind \notin {"Text", "Element"}
    /\ stack' = SetTop([Top EXCEPT !.pos = @ + 1])
    /\ UNCHANGED <<html, pc, data, k, facets, result, ret, other, structVars>>

\* Lines 54-56, 103-106 and, in the caller, 95-98.
ReadNodeReturn ==
    /\ pc = "read_node"
    /\ Top.node_list = <<>> \/ Top.pos > Len(Top.node_list)
    /\ Len(stack) > 1
    /\ LET caller == stack[Len(stack) - 1]
       IN  stack' = [SubSeq(stack, 1, Len(stack) - 1) EXCEPT
                        ![Len(stack) - 1] = AfterChild(caller, ReadNodeResult(Top))]
    /\ UNCHANGED <<html, pc, data, k, facets, result, ret, other, structVars>>

\* Lines 46-47: the root call returns; make_rich_text starts.
ReadNodeDone ==
    /\ pc = "read_node"
    /\ Top.node_list = <<>> \/ Top.pos > Len(Top.node_list)
    /\ Len(stack) = 1
    /\ data' = ReadNodeResult(Top)
    /\ stack' = <<>>
    /\ pc' = "make_rich_text"
    /\ UNCHANGED <<html, k, facets, result, ret, other, structVars>>

\* Lines 112-121: the policy is evaluated on the k-th run.
Analyse ==
    /\ pc = "make_rich_text"
    /\ k <= Len(data)
    /\ facets' = Facets(data[k])
    /\ pc' = "font"
    /\ UNCHANGED <<html, stack, data, k, result, ret, other, structVars>>

\* Lines 123-165: the font is built and the text element added.
AddElement ==
    /\ pc = "font"
    /\ result' = Append(result, TextElement(data[k].text, BuildFont(facets)))
    /\ k' = k + 1
    /\ pc' = "make_rich_text"
    /\ UNCHANGED <<html, stack, data, facets, ret, other, structVars>>

\* Lines 167 and 48.
Return ==
    /\ pc = "make_rich_text"
    /\ k > Len(data)
    /\ ret' = Some([ok |-> TRUE, value |-> result])
    /\ pc' = "done"
    /\ UNCHANGED <<html, stack, data, k, facets, result, other, structVars>>

Next ==
    \/ ParseErr
    \/ ParseOk
    \/ NodeText
    \/ NodeBr
    \/ NodeElement
    \/ NodeOther
    \/ ReadNodeReturn
    \/ ReadNodeDone
    \/ Analyse
    \/ AddElement
    \/ Return

Spec == Init /\ [][Next]_vars

----------------------------------------------------------------------------
\* make_rich_text on run lists given directly: the policy operations are
\* functions of one run, so their inputs are drawn from families of ancestor
\* sequences, every one of which read_node produces for some fragment.

Strings(chars, n) == UNION {[1..m -> chars] : m \in 0..n}

Font(attribute, value) == HfdElement(Tag("font", Attr1(attribute, value), <<>>))
Other(name, attribute, value) == HfdElement(Tag(name, Attr1(attribute, value), <<>>))
Plain(name) == HfdElement(Tag(name, NoAttributes, <<>>))

\* The sequence c with e inserted at position j.
Inserted(c, j, e) == SubSeq(c, 1, j - 1) \o <<e>> \o SubSeq(c, j, Len(c))

\* The sequences of at most n elements, all drawn from context except at most
\* one, drawn from full.
OneVaried(full, context, n) ==
    UNION {[1..m -> context] : m \in 0..n}
        \cup UNION { {Inserted(c, j, e) : c \in [1..(m - 1) -> context], j \in 1..m, e \in full}
                     : m \in 1..n }

FaceElements ==
    { Font("face", Some(Arial)), Font("face", Some(<<"B">>)), Font("face", None),
      Plain("font"), Other("span", "face", Some(Arial)), Plain("b") }
FaceSequences(n) == UNION {[1..m -> FaceElements] : m \in 0..n}

SizeChars == {"1", "2", ".", "-", "p"}
SizeContext ==
    { Plain("font"), Font("size", Some(<<"p">>)), Font("size", Some(<<"2">>)),
      Other("span", "size", Some(<<"1">>)) }
SizeSequences(n, len) ==
    OneVaried({Font("size", Some(v)) : v \in Strings(SizeChars, len)}, SizeContext, n)

Hashes(n) == [i \in 1..n |-> "#"]
Hashed(tokens, h) == {Hashes(n) \o t : n \in 0..h, t \in tokens}

\* Every spelling of a token in upper and lower case letters.
Spellings(t) ==
    {[i \in 1..Len(t) |-> IF i \in up THEN to_uppercase(t)[i] ELSE to_lowercase(t)[i]] :
        up \in SUBSET (1..Len(t))}
Capitalized(t) ==
    [i \in 1..Len(t) |-> IF i = 1 THEN to_uppercase(t)[i] ELSE t[i]]

Keys == {COLOR_MAP[i][1] : i \in 1..Len(COLOR_MAP)}
KeySpellings ==
    UNION {{key, to_uppercase(key), Capitalized(key)} : key \in Keys}
SampleTokens ==
    Spellings(red)
        \cup { blue, <<"T","a","N">>, <<"g","r","a","y","9","9">>,
               <<"a","b","c","d","e","f">>, <<"A","B","C","D","E","F">>,
               <<"a","B","c","D","e","F">>, <<"4","8","D","1","C","C">>,
               <<>>, <<"r","e","d","d">>, <<"r","e">>, <<"r","#","e","d">>,
               <<"r","e","d","#">> }
\* The tokens gray0 .. gray99.
Gray(n) ==
    <<"g","r","a","y">> \o
        (IF n < 10 THEN <<Digits[n + 1]>> ELSE <<Digits[(n \div 10) + 1], Digits[(n % 10) + 1]>>)
GrayTokens == {Gray(n) : n \in 0..99}

ColorContext ==
    { Plain("font"), Font("color", Some(blue)), Font("color", None),
      Other("span", "color", Some(red)) }
ColorSequences(n, h) ==
    {<<Font("color", Some(t))>> : t \in KeySpellings \cup GrayTokens}
        \cup OneVaried({Font("color", Some(t)) : t \in Hashed(SampleTokens, h)},
                       ColorContext, n)

\* Ancestor sequences of elements without attributes, over the tag names the
\* default policy tests, spellings of them it does not, and other names.
TagNames ==
    { "b", "strong", "i", "em", "u", "ins", "sup", "sub", "del", "font", "span",
      "B", "bold" }
TagSequences(n) == UNION {[1..m -> {Plain(name) : name \in TagNames}] : m \in 0..n}

SampleRuns ==
    { HtmlFlatData(<<"x">>, <<>>),
      HtmlFlatData(<<"y","z">>, <<Font("color", Some(red)), Plain("b")>>),
      HtmlFlatData(<<"\n">>, <<Font("face", Some(Arial))>>) }

\* Run lists: one run under every ancestor sequence of the four families, and
\* the lists of at most runs sample runs.
AnalysisInputs(n, len, h, runs) ==
    {<<HtmlFlatData(<<"x">>, e)>> :
        e \in FaceSequences(n) \cup SizeSequences(n, len) \cup ColorSequences(n, h)
                 \cup TagSequences(n)}
        \cup UNION {[1..m -> SampleRuns] : m \in 0..runs}

InitAnalysis ==
    /\ html = [ok |-> TRUE, children |-> <<>>]
    /\ pc = "make_rich_text"
    /\ stack = <<>>
    /\ data \in AnalysisInputs(MaxAncestors, MaxSizeLen, MaxHashes, MaxRuns)
    /\ k = 1
    /\ facets = NoFacets
    /\ result = <<>>
    /\ ret = None
    /\ other = None
    /\ StructsUnused

NextAnalysis ==
    \/ Analyse
    \/ AddElement
    \/ Return

SpecAnalysis == InitAnalysis /\ [][NextAnalysis]_vars

----------------------------------------------------------------------------
\* What the parse tree holds, read off the tree itself: every character of
\* every text node and one "\n" for every br, in document order, each with the
\* chain of elements (outer to inner) that enclose it.

RECURSIVE DocumentChars(_, _)
DocumentChars(nodes, chain) ==
    IF nodes = <<>> THEN <<>>
    ELSE LET n == Head(nodes)
             here ==
                 IF n.kind = "Text" THEN [i \in 1..Len(n.text) |-> <<n.text[i], chain>>]
                 ELSE IF n.kind = "Element" /\ n.name = "br" THEN << <<"\n", chain>> >>
                 ELSE IF n.kind = "Element"
                      THEN DocumentChars(n.children, Append(chain, HfdElement(n)))
                 ELSE <<>>
         IN  here \o DocumentChars(Tail(nodes), chain)

\* The characters of a run list, each with the ancestor sequence of its run.
RECURSIVE RunChars(_)
RunChars(runs) ==
    IF runs = <<>> THEN <<>>
    ELSE [i \in 1..Len(Head(runs).text) |-> <<Head(runs).text[i], Head(runs).element>>]
            \o RunChars(Tail(runs))

RECURSIVE ConcatTexts(_)
ConcatTexts(runs) ==
    IF runs = <<>> THEN <<>> ELSE Head(runs).text \o ConcatTexts(Tail(runs))

\* read_node has returned to html_to_richtext_custom.
Flattened == html.ok /\ pc \in {"make_rich_text", "font", "done"}

\* C1: the texts of the runs returned by read_node from the root, concatenated
\* in output order, are the document-order concatenation of the characters of
\* every text node with one "\n" for every br element.
C1_TextPreserved ==
    Flattened =>
        LET doc == DocumentChars(html.children, <<>>)
        IN  ConcatTexts(data) = [i \in 1..Len(doc) |-> doc[i][1]]

C1_Witness ==
    /\ pc = "done"
    /\ Len(data) = 2
    /\ \E i \in 1..Len(html.children) : html.children[i] = Br
    /\ \E i \in 1..Len(html.children) :
          html.children[i].kind = "Element" /\ html.children[i].children # <<>>

\* C2: every character of every run was observed under exactly the run's
\* ancestor sequence, the chain of non-br elements enclosing it, outer to inner.
C2_AncestorsExact ==
    Flattened => RunChars(data) = DocumentChars(html.children, <<>>)

C2_Witness ==
    /\ pc = "done"
    /\ Len(data) = 1
    /\ Len(data[1].element) = 2
    /\ data[1].element[1].name = "font"
    /\ data[1].element[2].name = "b"

\* The loop of read_node is at a br element.
AtBr == InLoop /\ Node.kind = "Element" /\ Node.name = "br"

\* The step taken at a br element: one "\n" appended to the accumulator's
\* text, its ancestor sequence and the result list unchanged, no call made.
C3_BrStep ==
    AtBr =>
        /\ Len(stack') = Len(stack)
        /\ stack'[Len(stack)].data.text = Top.data.text \o <<"\n">>
        /\ stack'[Len(stack)].data.element = Top.data.element
        /\ stack'[Len(stack)].result = Top.result

OnlyTextAndBr(nodes) ==
    /\ nodes # <<>>
    /\ \A i \in 1..Len(nodes) : nodes[i].kind = "Text" \/ nodes[i] = Br

\* Siblings that are only text and br flatten to one run; a br b to "a\nb".
C3_OneRun ==
    /\ Flattened /\ OnlyTextAndBr(html.children) => Len(data) = 1
    /\ \A a \in Texts, b \in Texts :
          Flattened /\ html.children = <<Text(a), Br, Text(b)>>
              => data = <<HtmlFlatData(a \o <<"\n">> \o b, <<>>)>>

\* C3: a br element never starts a new run: it appends exactly one "\n" to the
\* accumulator's text and leaves its ancestor sequence and the result list
\* unchanged, so that text, br, text among siblings flattens to exactly one
\* run with text "a\nb".
C3_BrIsText == [][C3_BrStep]_vars /\ []C3_OneRun

C3_Witness ==
    /\ pc = "done"
    /\ html.children = <<Text(<<"x">>), Br, Text(<<"y","z">>)>>
    /\ data = <<HtmlFlatData(<<"x","\n","y","z">>, <<>>)>>

\* C4: every run has non-empty text; an empty sibling list gives an empty run
\* list, and a tree without text and br (empty elements only) gives no run.
C4_NoEmptyRun ==
    /\ \A j \in 1..Len(stack) : \A i \in 1..Len(stack[j].result) :
          stack[j].result[i].text # <<>>
    /\ Flattened =>
          /\ \A i \in 1..Len(data) : data[i].text # <<>>
          /\ html.children = <<>> => data = <<>>
          /\ DocumentChars(html.children, <<>>) = <<>> => data = <<>>

C4_Witness ==
    /\ pc = "done"
    /\ Len(html.children) = 2
    /\ html.children[1].kind = "Element"
    /\ html.children[1].name = "font"
    /\ html.children[1].children = <<>>
    /\ html.children[2].kind = "Text"
    /\ Len(data) = 1

----------------------------------------------------------------------------
\* The policy's facets, lines 113-121, have been evaluated on the run data[k].
Analysed == pc = "font"

\* The ancestors of a run that are named font and carry the attribute.
FontsWith(run, attribute) ==
    {i \in 1..Len(run.element) :
        run.element[i].name = "font" /\ attribute \in DOMAIN run.element[i].attributes}

Outermost(S) == CHOOSE i \in S : \A j \in S : i <= j

\* The value of the attribute on the outermost font ancestor carrying it.
OutermostValue(run, attribute) ==
    run.element[Outermost(FontsWith(run, attribute))].attributes[attribute]

\* C5: font_name is the face attribute of the outermost ancestor that is named
\* font and has a face attribute, and is absent when there is none.
C5_FontNameOutermost ==
    Analysed =>
        IF FontsWith(data[k], "face") = {}
        THEN facets.font_name = None
        ELSE facets.font_name = Some(OutermostValue(data[k], "face"))

C5_Witness ==
    /\ Analysed
    /\ data[k].element = <<Font("face", Some(<<"B">>)), Font("face", Some(Arial))>>
    /\ facets.font_name = Some(<<"B">>)

\* C6: the color facet is taken from the outermost font ancestor that has a
\* color attribute (red enclosing blue gives FF0000), and it is absent exactly
\* when no font ancestor has a color attribute.
C6_ColorOutermost ==
    Analysed =>
        /\ facets.color = None <=> FontsWith(data[k], "color") = {}
        /\ FontsWith(data[k], "color") # {} =>
              facets.color =
                  color(HtmlFlatData(data[k].text,
                      <<data[k].element[Outermost(FontsWith(data[k], "color"))]>>))
        /\ data[k].element = <<Font("color", Some(red)), Font("color", Some(blue))>> =>
              facets.color = Some(<<"F","F","0","0","0","0">>)

C6_Witness ==
    /\ Analysed
    /\ data[k].element = <<Font("color", Some(red)), Font("color", Some(blue))>>
    /\ facets.color = Some(<<"F","F","0","0","0","0">>)

\* The table entries whose keyword is the token, compared in lower case.
EntriesFor(token) ==
    LET spelled == to_lowercase(token)
    IN  {n \in 1..Len(COLOR_MAP) : COLOR_MAP[n][1] = spelled}

\* C7: a token that is a spelling, in any mix of upper and lower case, of a
\* table keyword resolves to the keyword's value in upper case; "RED" and "red"
\* resolve to "FF0000".
C7_LookupCaseInsensitive ==
    Analysed /\ FontsWith(data[k], "color") # {} =>
        LET token == OutermostValue(data[k], "color")
        IN  /\ \A n \in EntriesFor(token) :
                  facets.color = Some(to_uppercase(COLOR_MAP[n][2]))
            /\ token \in {red, <<"R","E","D">>} =>
                  facets.color = Some(<<"F","F","0","0","0","0">>)

C7_Witness ==
    /\ Analysed
    /\ data[k].element = <<Font("color", Some(<<"R","e","D">>))>>
    /\ facets.color = Some(<<"F","F","0","0","0","0">>)

\* The token without its leading '#', if it has one.
WithoutHash(token) == IF token # <<>> /\ token[1] = "#" THEN Tail(token) ELSE token

\* C8: a color token is never rejected (the facet is present whenever a font
\* ancestor has a color attribute), and a token that, its hash removed, is no
\* table keyword gives the token with its hash removed and its letters in
\* upper case; "#ABCDEF" and "#abcdef" both give "ABCDEF".
C8_UnknownPassedThrough ==
    Analysed /\ FontsWith(data[k], "color") # {} =>
        LET token == OutermostValue(data[k], "color")
            bare == WithoutHash(token)
        IN  /\ facets.color # None
            /\ (EntriesFor(bare) = {} /\ (bare = <<>> \/ bare[1] # "#")) =>
                  facets.color = Some(to_uppercase(bare))
            /\ token \in {<<"#","A","B","C","D","E","F">>, <<"#","a","b","c","d","e","f">>} =>
                  facets.color = Some(<<"A","B","C","D","E","F">>)

C8_Witness ==
    /\ Analysed
    /\ data[k].element = <<Font("color", Some(<<"#","a","b","c","d","e","f">>))>>
    /\ facets.color = Some(<<"A","B","C","D","E","F">>)

\* What a normalized token resolves to: the value, in upper case, of the table
\* entry it spells, else the token in upper case.
Resolved(token) ==
    IF EntriesFor(token) # {}
    THEN Some(to_uppercase(COLOR_MAP[Outermost(EntriesFor(token))][2]))
    ELSE Some(to_uppercase(token))

\* The number of '#' characters a token starts with.
LeadingHashes(token) ==
    CHOOSE n \in 0..Len(token) :
        /\ \A i \in 1..n : token[i] = "#"
        /\ n < Len(token) => token[n + 1] # "#"

\* C9, as stated: only one leading '#' is removed before lookup and
\* pass-through, so that "##ABCDEF" is normalized to "#ABCDEF".
C9_OneHashStripped ==
    Analysed /\ FontsWith(data[k], "color") # {} =>
        facets.color = Resolved(WithoutHash(OutermostValue(data[k], "color")))

\* C9, amended: every leading '#' is removed before lookup and pass-through,
\* so that "##ABCDEF", like "#ABCDEF", is normalized to "ABCDEF".
C9_AllHashesStripped ==
    Analysed /\ FontsWith(data[k], "color") # {} =>
        LET token == OutermostValue(data[k], "color")
        IN  facets.color = Resolved(SubSeq(token, LeadingHashes(token) + 1, Len(token)))

C9_Witness ==
    /\ Analysed
    /\ data[k].element = <<Font("color", Some(<<"#","#","A","B","C","D","E","F">>))>>
    /\ facets.color = Some(<<"A","B","C","D","E","F">>)

\* C10, as stated: size parses the size attribute of the outermost font
\* ancestor that has one, and is absent if that attribute does not parse.
C10_OutermostSizeAttribute ==
    Analysed =>
        IF FontsWith(data[k], "size") = {}
        THEN facets.size = None
        ELSE facets.size = parse_f64(OutermostValue(data[k], "size"))

\* The font ancestors whose size attribute parses as a number.
FontsWithNumber(run) ==
    {i \in FontsWith(run, "size") : parse_f64(run.element[i].attributes["size"]) # None}

\* C10, amended: size is the number parsed from the size attribute of the
\* outermost font ancestor whose size attribute parses; font ancestors whose
\* size is absent or unparsable are skipped, and the facet is absent exactly
\* when no font ancestor has a parsable size.
C10_OutermostParsableSize ==
    Analysed =>
        /\ IF FontsWithNumber(data[k]) = {}
           THEN facets.size = None
           ELSE facets.size =
                    parse_f64(data[k].element[Outermost(FontsWithNumber(data[k]))]
                                  .attributes["size"])
        /\ data[k].element = <<Font("size", Some(<<"1",".">>))>> =>
              facets.size = Some(Pow10(MaxSizeLen))
        /\ data[k].element = <<Font("size", Some(<<".","2">>))>> =>
              facets.size = Some(2 * Pow10(MaxSizeLen - 1))
        /\ data[k].element = <<Font("size", Some(<<"2","1">>))>> =>
              facets.size = Some(21 * Pow10(MaxSizeLen))
        /\ data[k].element = <<Font("size", Some(<<"-","2">>))>> =>
              facets.size = Some(0 - 2 * Pow10(MaxSizeLen))
        /\ \A v \in {<<>>, <<".">>, <<"-">>, <<"1","p">>, <<".",".">>, <<"-",".">>, <<"1","-">>} :
              data[k].element = <<Font("size", Some(v))>> => facets.size = None

C10_Witness ==
    /\ Analysed
    /\ data[k].element = <<Font("size", Some(<<"p">>)), Font("size", Some(<<"2">>))>>
    /\ facets.size = Some(2 * Pow10(MaxSizeLen))

----------------------------------------------------------------------------
\* html_to_richtext_custom with a policy of the caller's: an implementation of
\* AnalysisMethod, lines 198-209, may answer anything for a run, so the facets
\* of a run are drawn from a family of answers.

AllFacets ==
    [font_name |-> Some(Arial), size |-> Some(0), color |-> Some(<<"1">>),
     is_bold |-> TRUE, is_italic |-> TRUE, is_underline |-> TRUE,
     is_superscript |-> TRUE, is_subscript |-> TRUE, is_strikethrough |-> TRUE]
CustomFacets ==
    { NoFacets, AllFacets,
      [NoFacets EXCEPT !.font_name = Some(<<>>), !.is_italic = TRUE, !.is_superscript = TRUE],
      [NoFacets EXCEPT !.color = Some(<<>>), !.is_bold = TRUE, !.is_subscript = TRUE],
      [AllFacets EXCEPT !.size = None, !.is_underline = FALSE, !.is_strikethrough = FALSE] }

\* Lines 112-121 with a policy other than DataAnalysis.
AnalyseCustom ==
    /\ pc = "make_rich_text"
    /\ k <= Len(data)
    /\ facets' \in CustomFacets
    /\ pc' = "font"
    /\ UNCHANGED <<html, stack, data, k, result, ret, other, structVars>>

\* Run lists given to make_rich_text directly, a run without text among them.
CustomInputs(runs) ==
    UNION {[1..m -> SampleRuns \cup {HtmlFlatData(<<>>, <<Plain("b")>>)}] : m \in 0..runs}

InitCustom ==
    \/ Init
    \/ /\ html = [ok |-> TRUE, children |-> <<>>]
       /\ pc = "make_rich_text"
       /\ stack = <<>>
       /\ data \in CustomInputs(MaxRuns)
       /\ k = 1
       /\ facets = NoFacets
       /\ result = <<>>
       /\ ret = None
       /\ other = None
       /\ StructsUnused

NextCustom ==
    \/ Next
    \/ AnalyseCustom

SpecCustom == InitCustom /\ [][NextCustom]_vars

----------------------------------------------------------------------------
\* The conversion as a function of its input: read_node, lines 51-107, as the
\* recursive function it is, make_rich_text, lines 109-168, with the default
\* policy, and html_to_richtext, lines 31-49.

RECURSIVE read_node(_, _)
RECURSIVE read_node_loop(_, _, _, _, _)
read_node_loop(node_list, parent_element, pos, d, res) ==
    IF pos > Len(node_list)
    THEN IF d.text # <<>> THEN Append(res, d) ELSE res
    ELSE LET node == node_list[pos]
         IN  IF node.kind = "Text"
             THEN read_node_loop(node_list, parent_element, pos + 1,
                                 AppendText(d, node.text), res)
             ELSE IF node.kind = "Element" /\ node.name = "br"
             THEN read_node_loop(node_list, parent_element, pos + 1, AppendBr(d), res)
             ELSE IF node.kind = "Element"
             THEN LET flushed == IF d.text # <<>> THEN Append(res, d) ELSE res
                      fresh == IF d.text # <<>> THEN NewData(parent_element) ELSE d
                      extended == PushElement(fresh, HfdElement(node))
                      children == read_node(node.children, extended.element)
                  IN  read_node_loop(node_list, parent_element, pos + 1,
                                     ResetData(parent_element), flushed \o children)
             ELSE read_node_loop(node_list, parent_element, pos + 1, d, res)
read_node(node_list, parent_element) ==
    IF node_list = <<>> THEN <<>>
    ELSE read_node_loop(node_list, parent_element, 1, NewData(parent_element), <<>>)

make_rich_text(html_flat_data_list) ==
    [i \in 1..Len(html_flat_data_list) |->
        TextElement(html_flat_data_list[i].text, BuildFont(Facets(html_flat_data_list[i])))]

html_to_richtext(h) ==
    IF h.ok
    THEN [ok |-> TRUE, value |-> make_rich_text(read_node(h.children, <<>>))]
    ELSE [ok |-> FALSE, value |-> <<>>]

----------------------------------------------------------------------------
\* Two conversions running concurrently, each on a thread of its own: the
\* variables hold the locals of the thread that takes the next step, other
\* those of the thread that waits, and a context switch exchanges them. The
\* code has no static or shared mutable state; COLOR_MAP is a const.

Conversion(h) ==
    [html |-> h, pc |-> "start", stack |-> <<>>, data |-> <<>>, k |-> 1,
     facets |-> NoFacets, result |-> <<>>, ret |-> None]

\* Largest number of nodes of the first input of two concurrent conversions.
MaxPairNodes == 2

\* Inputs of the second conversion.
PairOthers ==
    { [ok |-> TRUE,
       children |-> <<Element("b", NoAttributes, <<>>, <<Text(<<"x">>)>>), Text(<<"y","z">>)>>],
      [ok |-> TRUE,
       children |-> <<Element("font", Attr1("color", Some(red)), <<>>, <<Text(<<"x">>), Br>>)>>],
      NoHtml }

InitPair ==
    /\ html \in {[ok |-> TRUE, children |-> f] : f \in Doms(MaxPairNodes)} \cup PairOthers
    /\ pc = "start"
    /\ stack = <<>>
    /\ data = <<>>
    /\ k = 1
    /\ facets = NoFacets
    /\ result = <<>>
    /\ ret = None
    /\ other \in {Some(Conversion(h)) : h \in PairOthers}
    /\ StructsUnused

Switch_shared_result ==
    /\ other # None
    /\ other' = Some([html |-> html, pc |-> pc, stack |-> stack, data |-> data, k |-> k,
                      facets |-> facets, result |-> result, ret |-> ret])
    /\ html' = other[1].html
    /\ pc' = other[1].pc
    /\ stack' = other[1].stack
    /\ data' = other[1].data
    /\ k' = other[1].k
    /\ facets' = other[1].facets
    /\ result' = result
    /\ ret' = other[1].ret
    /\ UNCHANGED structVars

\* The scheduler runs the other thread.
Switch ==
    /\ other # None
    /\ other' = Some([html |-> html, pc |-> pc, stack |-> stack, data |-> data, k |-> k,
                      facets |-> facets, result |-> result, ret |-> ret])
    /\ html' = other[1].html
    /\ pc' = other[1].pc
    /\ stack' = other[1].stack
    /\ data' = other[1].data
    /\ k' = other[1].k
    /\ facets' = other[1].facets
    /\ result' = other[1].result
    /\ ret' = other[1].ret
    /\ UNCHANGED structVars

NextPair ==
    \/ Next
    \/ Switch

SpecPair == InitPair /\ [][NextPair]_vars

----------------------------------------------------------------------------

\* The html conversion takes no part in the operations of src/structs.
HtmlUnused ==
    /\ html = NoHtml
    /\ stack = <<>>
    /\ data = <<>>
    /\ k = 1
    /\ facets = NoFacets
    /\ result = <<>>
    /\ ret = None
    /\ other = None

\* writer::driver: write_start_tag(writer, name, attributes, empty_flag) and
\* write_end_tag(writer, name), as the events a reader of the output gets.
\* Attributes are a sequence of <<name, value>> pairs.
StartTag(name, attributes, empty_flag) ==
    [event |-> IF empty_flag THEN "Empty" ELSE "Start", name |-> name,
     attributes |-> attributes]
EndTag(name) == [event |-> "End", name |-> name, attributes |-> <<>>]

----------------------------------------------------------------------------
\* OleObjects, src/structs/ole_objects.rs.

\* Largest number of objects in the collection.
MaxOleObjects == 3
\* Largest relationship id write_to is called with.
MaxRId == 2

\* The OleObject values of the inputs.
OleObjectValues == {"a", "b", "c"}

\* OleObject::write_to(writer, &r), called at line 73: what it writes is not
\* in this file, so it is kept as the call and its arguments.
OleObjectWritten(obj, r) == [event |-> "OleObject", obj |-> obj, r_id |-> r]

set_ole_object_front(self, value) == <<value>> \o self

\* Lines 22-25.
set_ole_object(self, value) == Append(self, value)

OleObjects_write_to_consecutive(self, r) ==
    IF Len(self) > 0
    THEN <<StartTag("oleObjects", <<>>, FALSE)>>
             \o [i \in 1..Len(self) |-> OleObjectWritten(self[i], r + (i - 1))]
             \o <<EndTag("oleObjects")>>
    ELSE <<>>

\* Lines 61-79: r starts at r_id and grows by 2 after each object.
OleObjects_write_to(self, r) ==
    IF Len(self) > 0
    THEN <<StartTag("oleObjects", <<>>, FALSE)>>
             \o [i \in 1..Len(self) |-> OleObjectWritten(self[i], r + 2 * (i - 1))]
             \o <<EndTag("oleObjects")>>
    ELSE <<>>

InitOle ==
    /\ HtmlUnused
    /\ pc = "ole_objects"
    /\ ole_object = <<>>
    /\ r_id = 0
    /\ writer = <<>>
    /\ properties = DefaultProperties
    /\ reader = Reader(<<>>, DefaultProperties)
    /\ stylesheet = DefaultStylesheet
    /\ style = DefaultStyle

SetOleObject ==
    /\ pc = "ole_objects"
    /\ Len(ole_object) < MaxOleObjects
    /\ \E value \in OleObjectValues : ole_object' = set_ole_object(ole_object, value)
    /\ UNCHANGED <<htmlVars, r_id, writer, properties, reader, stylesheet, style>>

\* write_to on a new writer.
OleWriteTo ==
    /\ pc = "ole_objects"
    /\ \E r \in 0..MaxRId :
          /\ r_id' = r
          /\ writer' = OleObjects_write_to(ole_object, r)
    /\ pc' = "ole_objects_written"
    /\ UNCHANGED <<html, stack, data, k, facets, result, ret, other>>
    /\ UNCHANGED <<ole_object, properties, reader, stylesheet, style>>

NextOle ==
    \/ SetOleObject
    \/ OleWriteTo

SpecOle == InitOle /\ [][NextOle]_vars

----------------------------------------------------------------------------

\* NonVisualDrawingProperties,
\* src/structs/drawing/spreadsheet/non_visual_drawing_properties.rs.

\* StringValue, UInt32Value and BooleanValue are not in these files: a value is
\* an Option, get_value gives the type's default when there is none, and
\* get_value_string and set_value_string are the decimal, "1"/"0" and
\* unchanged spellings of u32, bool and String.
has_value(v) == v # None
StringValue_get_value(v) == IF v = None THEN <<>> ELSE v[1]
UInt32Value_get_value(v) == IF v = None THEN 0 ELSE v[1]
BooleanValue_get_value(v) == IF v = None THEN FALSE ELSE v[1]

u32_to_string(n) ==
    IF n < 10 THEN <<Digits[n + 1]>> ELSE <<Digits[(n \div 10) + 1], Digits[(n % 10) + 1]>>
UInt32Value_get_value_string(v) == u32_to_string(UInt32Value_get_value(v))
UInt32Value_set_value_string(s) == Some(Decimal(s))
BooleanValue_get_value_string(v) == IF BooleanValue_get_value(v) THEN <<"1">> ELSE <<"0">>
BooleanValue_set_value_string(s) == Some(s \in {<<"1">>, <<"t","r","u","e">>})

\* reader::driver::get_attribute(e, name): the value of the attribute, if any.
get_attribute(e, name) ==
    LET found == {i \in 1..Len(e.attributes) : e.attributes[i][1] = name}
    IN  IF found = {} THEN None ELSE Some(e.attributes[CHOOSE i \in found : TRUE][2])

get_name(self) == StringValue_get_value(self.name)
get_id(self) == UInt32Value_get_value(self.id)
get_hidden(self) == BooleanValue_get_value(self.hidden)
get_shape_id(self) == StringValue_get_value(self.shape_id)

\* The attributes of xdr:cNvPr, lines 97-102.
PropertiesAttributes(self) ==
    << <<"id", UInt32Value_get_value_string(self.id)>>,
       <<"name", StringValue_get_value(self.name)>> >>
        \o (IF has_value(self.hidden)
            THEN << <<"hidden", BooleanValue_get_value_string(self.hidden)>> >>
            ELSE <<>>)

CompatExtUri == "{63B3BB69-23CF-44E3-9099-C40C66FF867C}"

NonVisualDrawingProperties_write_to_unclosed(self) ==
    LET with_inner == has_value(self.shape_id)
    IN  <<StartTag("xdr:cNvPr", PropertiesAttributes(self), ~with_inner)>>
            \o (IF with_inner
                THEN << StartTag("a:extLst", <<>>, FALSE),
                        StartTag("a:ext", << <<"uri", CompatExtUri>> >>, FALSE),
                        StartTag("a14:compatExt",
                                 << <<"spid", StringValue_get_value(self.shape_id)>> >>, TRUE),
                        EndTag("a:ext"),
                        EndTag("xdr:cNvPr") >>
                ELSE <<>>)

\* Lines 94-118.
NonVisualDrawingProperties_write_to(self) ==
    LET with_inner == has_value(self.shape_id)
    IN  <<StartTag("xdr:cNvPr", PropertiesAttributes(self), ~with_inner)>>
            \o (IF with_inner
                THEN << StartTag("a:extLst", <<>>, FALSE),
                        StartTag("a:ext", << <<"uri", CompatExtUri>> >>, FALSE),
                        StartTag("a14:compatExt",
                                 << <<"spid", StringValue_get_value(self.shape_id)>> >>, TRUE),
                        EndTag("a:ext"),
                        EndTag("a:extLst"),
                        EndTag("xdr:cNvPr") >>
                ELSE <<>>)

\* The properties of the inputs.
PropertiesInputs ==
    [name : {None, Some(<<>>), Some(<<"a">>)},
     id : {None, Some(0), Some(7), Some(12)},
     hidden : {None, Some(TRUE), Some(FALSE)},
     shape_id : {None, Some(<<>>), Some(<<"s","1">>)}]

InitProperties ==
    /\ HtmlUnused
    /\ pc = "properties"
    /\ properties \in PropertiesInputs
    /\ writer = <<>>
    /\ reader = Reader(<<>>, DefaultProperties)
    /\ ole_object = <<>>
    /\ r_id = 0
    /\ stylesheet = DefaultStylesheet
    /\ style = DefaultStyle

\* write_to on a new writer.
PropertiesWriteTo ==
    /\ pc = "properties"
    /\ writer' = NonVisualDrawingProperties_write_to(properties)
    /\ pc' = "properties_written"
    /\ UNCHANGED <<html, stack, data, k, facets, result, ret, other>>
    /\ UNCHANGED <<ole_object, r_id, properties, reader, stylesheet, style>>

\* A reader of what was written reads the first event, an Empty or Start
\* xdr:cNvPr, and calls set_attributes on a new object with the matching
\* empty flag: lines 58-67.
SetAttributes ==
    /\ pc = "properties_written"
    /\ LET e == writer[1]
           empty_flg == e.event = "Empty"
           id == get_attribute(e, "id")
           name == get_attribute(e, "name")
           hidden == get_attribute(e, "hidden")
       IN  IF id = None \/ name = None
           THEN /\ pc' = "panic"
                /\ reader' = [Reader(writer, DefaultProperties) EXCEPT !.pos = 1]
           ELSE /\ reader' =
                      [events |-> writer, pos |-> 1,
                       self |-> [DefaultProperties EXCEPT
                                    !.id = UInt32Value_set_value_string(id[1]),
                                    !.name = Some(name[1]),
                                    !.hidden = IF hidden = None THEN None
                                               ELSE BooleanValue_set_value_string(hidden[1])]]
                /\ pc' = IF empty_flg THEN "returned" ELSE "set_attributes"
    /\ UNCHANGED <<html, stack, data, k, facets, result, ret, other>>
    /\ UNCHANGED <<ole_object, r_id, writer, properties, stylesheet, style>>

\* Lines 69-91: one turn of the loop.
SetAttributesEvent ==
    /\ pc = "set_attributes"
    /\ IF reader.pos >= Len(reader.events)
       THEN /\ pc' = "panic"
            /\ reader' = reader
       ELSE LET e == reader.events[reader.pos + 1]
                read == [reader EXCEPT !.pos = @ + 1]
            IN  IF e.event = "Empty" /\ e.name = "a14:compatExt"
                THEN IF get_attribute(e, "spid") = None
                     THEN pc' = "panic" /\ reader' = read
                     ELSE /\ reader' = [read EXCEPT !.self.shape_id = get_attribute(e, "spid")]
                          /\ pc' = pc
                ELSE IF e.event = "End" /\ e.name = "a:extLst"
                THEN pc' = "returned" /\ reader' = read
                ELSE pc' = pc /\ reader' = read
    /\ UNCHANGED <<html, stack, data, k, facets, result, ret, other>>
    /\ UNCHANGED <<ole_object, r_id, writer, properties, stylesheet, style>>

NextProperties ==
    \/ PropertiesWriteTo
    \/ SetAttributes
    \/ SetAttributesEvent

SpecProperties == InitProperties /\ [][NextProperties]_vars

----------------------------------------------------------------------------

\* Stylesheet, src/structs/stylesheet.rs.

\* CellFormat: the ids of its number format, font, fill and border, its apply
\* flags (has_apply_x and get_apply_x: an optional bool) and its alignment.
Components == {"number_format", "font", "fill", "border", "alignment"}
CellFormat(ids, flags, alignment) == [ids |-> ids, apply |-> flags, alignment |-> alignment]

\* get(id).unwrap() on a table of the stylesheet: the entry, or none (a panic).
Get(table, id) == IF id \in DOMAIN table THEN Some(table[id]) ELSE None

apply_default_first(def_flag, flag) ==
    LET apply0 == TRUE
        apply1 == IF flag # None THEN flag[1] ELSE apply0
    IN  IF def_flag # None THEN def_flag[1] ELSE apply1

\* Lines 172-178 and the like: the flag of the default format, if it has one,
\* then that of the cell format, if it has one, replace true.
apply(def_flag, flag) ==
    LET apply0 == TRUE
        apply1 == IF def_flag # None THEN def_flag[1] ELSE apply0
    IN  IF flag # None THEN flag[1] ELSE apply1

\* Lines 170-249. The result is the style, or a panic when an entry looked up
\* is missing.
get_style_by_cell_format(self, s, def_cell_format, cell_format) ==
    LET flag(c) == apply(def_cell_format.apply[c], cell_format.apply[c])
        number_format == Get(self.numbering_formats, cell_format.ids["number_format"])
        font == Get(self.fonts, cell_format.ids["font"])
        fill == Get(self.fills, cell_format.ids["fill"])
        border == Get(self.borders, cell_format.ids["border"])
        s1 == IF flag("number_format") THEN [s EXCEPT !.numbering_format = number_format] ELSE s
        s2 == IF flag("font") THEN [s1 EXCEPT !.font = font] ELSE s1
        s3 == IF flag("fill") THEN [s2 EXCEPT !.fill = fill] ELSE s2
        s4 == IF flag("border") THEN [s3 EXCEPT !.borders = border] ELSE s3
        s5 == IF flag("alignment") /\ def_cell_format.alignment # None
              THEN [s4 EXCEPT !.alignment = def_cell_format.alignment] ELSE s4
        s6 == IF flag("alignment") /\ cell_format.alignment # None
              THEN [s5 EXCEPT !.alignment = cell_format.alignment] ELSE s5
        panic == \/ flag("number_format") /\ number_format = None
                 \/ flag("font") /\ font = None
                 \/ flag("fill") /\ fill = None
                 \/ flag("border") /\ border = None
    IN  [panic |-> panic, style |-> s6]

\* Lines 159-168.
get_style(self, id) ==
    LET cell_format == Get(self.cell_formats, id)
        def_cell_format ==
            IF cell_format = None THEN None
            ELSE Get(self.cell_style_formats, cell_format[1].format_id)
    IN  IF cell_format = None \/ def_cell_format = None
        THEN [panic |-> TRUE, style |-> DefaultStyle]
        ELSE get_style_by_cell_format(self, DefaultStyle, def_cell_format[1], cell_format[1].format)

\* Largest number of apply flags that have a value in one cell format.
MaxFlags == 1

\* The apply flags of a format: at most n of the five have a value.
FlagVectors(n) ==
    {f \in [Components -> {None, Some(TRUE), Some(FALSE)}] :
        Cardinality({c \in Components : f[c] # None}) <= n}

\* The ids of a cell format: all 0, all 1, or one that is not in its table.
IdVectors ==
    { [c \in Components \ {"alignment"} |-> 0], [c \in Components \ {"alignment"} |-> 1],
      [c \in Components \ {"alignment"} |-> IF c = "font" THEN 2 ELSE 0],
      [c \in Components \ {"alignment"} |-> IF c = "number_format" THEN 2 ELSE 1] }

\* A stylesheet with two entries in each table, one default (cell-style) format
\* and one cell format that refers to it.
Stylesheets(n) ==
    { [numbering_formats |-> (0 :> "General" @@ 1 :> "0.00"),
       fonts |-> (0 :> "font0" @@ 1 :> "font1"),
       fills |-> (0 :> "fill0" @@ 1 :> "fill1"),
       borders |-> (0 :> "border0" @@ 1 :> "border1"),
       cell_style_formats |-> (0 :> CellFormat(def_ids, def_flags, def_alignment)),
       cell_formats |-> (0 :> [format_id |-> 0,
                               format |-> CellFormat(ids, flags, alignment)])] :
        def_ids \in {[c \in Components \ {"alignment"} |-> 0]},
        def_flags \in FlagVectors(n), flags \in FlagVectors(n),
        def_alignment \in {None, Some("left")}, alignment \in {None, Some("right")},
        ids \in IdVectors }

InitStylesheet ==
    /\ HtmlUnused
    /\ pc = "stylesheet"
    /\ stylesheet \in Stylesheets(MaxFlags)
    /\ style = DefaultStyle
    /\ ole_object = <<>>
    /\ r_id = 0
    /\ writer = <<>>
    /\ properties = DefaultProperties
    /\ reader = Reader(<<>>, DefaultProperties)

\* get_style(0).
GetStyle ==
    /\ pc = "stylesheet"
    /\ LET got == get_style(stylesheet, 0)
       IN  /\ style' = got.style
           /\ pc' = IF got.panic THEN "panic" ELSE "style"
    /\ UNCHANGED <<html, stack, data, k, facets, result, ret, other>>
    /\ UNCHANGED <<ole_object, r_id, writer, properties, reader, stylesheet>>

NextStylesheet ==
    \/ GetStyle

SpecStylesheet == InitStylesheet /\ [][NextStylesheet]_vars

----------------------------------------------------------------------------

\* The names of the ancestors of a run.
AncestorNames(run) == {run.element[i].name : i \in 1..Len(run.element)}

\* C11: under the default policy each boolean facet of a run is true exactly
\* when some ancestor, at any depth, has one of the facet's tag names (bold: b,
\* strong; italic: i, em; underline: u, ins; superscript: sup; subscript: sub;
\* strikethrough: del), and is_tag of a name is true exactly when some ancestor
\* has exactly that name.
C11_BooleanFacetsByTagName ==
    Analysed =>
        LET names == AncestorNames(data[k])
        IN  /\ facets.is_bold = (names \cap {"b", "strong"} # {})
            /\ facets.is_italic = (names \cap {"i", "em"} # {})
            /\ facets.is_underline = (names \cap {"u", "ins"} # {})
            /\ facets.is_superscript = ("sup" \in names)
            /\ facets.is_subscript = ("sub" \in names)
            /\ facets.is_strikethrough = ("del" \in names)
            /\ \A name \in TagNames : is_tag(data[k], name) = (name \in names)

C11_Witness ==
    /\ Analysed
    /\ data[k].element = <<Plain("strong"), Plain("span")>>
    /\ facets.is_bold
    /\ ~facets.is_italic
    /\ is_tag(data[k], "span")
    /\ ~is_tag(data[k], "b")

\* The builder has added the runs before data[k] and is between two runs.
Built == pc \in {"make_rich_text", "done"}

\* C12: make_rich_text returns exactly one rich-text run per flat run, in the
\* same order, and the text of the k-th rich-text run is the text of the k-th
\* flat run, for any run list and any policy.
C12_OneRunPerFlatRun ==
    /\ Built =>
          /\ Len(result) = k - 1
          /\ \A i \in 1..Len(result) : result[i].text = data[i].text
    /\ (pc = "done" /\ html.ok) =>
          /\ ret = Some([ok |-> TRUE, value |-> result])
          /\ Len(result) = Len(data)

C12_Witness ==
    /\ pc = "done"
    /\ Len(data) = 2
    /\ data[1].text = <<"y","z">>
    /\ data[2].text = <<>>
    /\ ret[1].ok
    /\ Len(ret[1].value) = 2
    /\ ret[1].value[1].text = <<"y","z">>
    /\ ret[1].value[2].text = <<>>
    /\ ret[1].value[1].run_properties # BuildFont(Facets(data[1]))

\* The builder has just added the run data[k - 1], whose facets are in facets.
Added == pc = "make_rich_text" /\ k > 1

\* The font of the run added last.
LastFont == result[k - 1].run_properties

\* C13: the builder sets a facet on the font only when the policy produced it:
\* a boolean facet that is false leaves the property unset, never explicitly
\* false, and an absent font name, size or color leaves the property unset,
\* never empty or zero; a facet the policy produced is set to what it produced.
C13_OnlyProducedFacetsSet ==
    Added =>
        /\ LastFont.name = facets.font_name
        /\ LastFont.size = facets.size
        /\ LastFont.color = facets.color
        /\ LastFont.bold = (IF facets.is_bold THEN Some(TRUE) ELSE None)
        /\ LastFont.italic = (IF facets.is_italic THEN Some(TRUE) ELSE None)
        /\ LastFont.underline = (IF facets.is_underline THEN Some("Single") ELSE None)
        /\ LastFont.strikethrough = (IF facets.is_strikethrough THEN Some(TRUE) ELSE None)
        /\ LastFont.vertical_text_alignment \in {None, Some("Superscript"), Some("Subscript")}
        /\ LastFont.vertical_text_alignment = Some("Superscript") => facets.is_superscript
        /\ LastFont.vertical_text_alignment = Some("Subscript") => facets.is_subscript
        /\ (LastFont.vertical_text_alignment = None) =
              (~facets.is_superscript /\ ~facets.is_subscript)

C13_Witness ==
    /\ Added
    /\ facets = [NoFacets EXCEPT !.color = Some(<<>>), !.is_bold = TRUE, !.is_subscript = TRUE]
    /\ LastFont = [DefaultFont EXCEPT !.color = Some(<<>>), !.bold = Some(TRUE),
                                      !.vertical_text_alignment = Some("Subscript")]

\* C14: the six boolean facets are independent in the output: each facet the
\* policy reports true is recorded on the font whatever the other five are, so
\* a run whose ancestors include both sup and sub is recorded as both
\* superscript and subscript.
C14_BooleanFacetsIndependent ==
    Added =>
        /\ facets.is_bold => LastFont.bold = Some(TRUE)
        /\ facets.is_italic => LastFont.italic = Some(TRUE)
        /\ facets.is_underline => LastFont.underline = Some("Single")
        /\ facets.is_strikethrough => LastFont.strikethrough = Some(TRUE)
        /\ facets.is_superscript => LastFont.vertical_text_alignment = Some("Superscript")
        /\ facets.is_subscript => LastFont.vertical_text_alignment = Some("Subscript")

\* C15: when the parser fails, the conversion returns that error and nothing
\* else: neither the flattener nor the builder runs and no run list is
\* produced; when the parser succeeds, the conversion returns Ok.
C15_ErrorOnlyFromParser ==
    /\ ~html.ok =>
          /\ pc \in {"start", "done"}
          /\ stack = <<>> /\ data = <<>> /\ k = 1 /\ facets = NoFacets /\ result = <<>>
          /\ pc = "done" => ret = Some([ok |-> FALSE, value |-> <<>>])
    /\ (html.ok /\ pc = "done") => (ret # None /\ ret[1].ok)
    /\ pc # "done" => ret = None

C15_Witness ==
    /\ ~html.ok
    /\ pc = "done"
    /\ ret = Some([ok |-> FALSE, value |-> <<>>])
    /\ result = <<>>

\* The conversion is that of the documentation example.
OnFixture == html = [ok |-> TRUE, children |-> Fixture]

\* C16: on the documentation example the conversion succeeds and yields a
\* fixed run sequence in document order whose run boundaries occur exactly at
\* each element open, each element close and each br occurrence: no run goes on
\* across a line break.
C16_BoundaryAtEveryBr ==
    (OnFixture /\ Flattened) =>
        \A i \in 1..Len(data) :
            \A j \in 1..Len(data[i].text) :
                data[i].text[j] = "\n" => (j = 1 \/ j = Len(data[i].text))

\* The ancestors of the runs of the documentation example.
FixtureRed == [name |-> "font", attributes |-> "color" :> red, classes |-> <<>>]
FixtureTurquoise ==
    [name |-> "font", attributes |-> "color" :> MediumTurquoise, classes |-> <<"test">>]
FixtureBold == [name |-> "b", attributes |-> [a \in {} |-> <<>>], classes |-> <<>>]
FixtureRuns ==
    << HtmlFlatData(<<"t","e","s","t">>, <<FixtureRed>>),
       HtmlFlatData(<<"\n">>, <<>>),
       HtmlFlatData(<<"T","E">>, <<FixtureTurquoise>>),
       HtmlFlatData(<<"S">>, <<FixtureTurquoise, FixtureBold>>),
       HtmlFlatData(<<"T","\n","T","E","S","T">>, <<FixtureTurquoise>>) >>

\* C16, amended: on the documentation example the conversion succeeds and
\* yields five runs in document order, "test" in red, the first line break
\* alone and unformatted, then "TE", bold "S" and "T\nTEST" in 48D1CC: run
\* boundaries occur exactly at the open and the close of each element other
\* than br, and the second br stays inside its run.
C16_FixtureRuns ==
    /\ (OnFixture /\ Flattened) => data = FixtureRuns
    /\ (OnFixture /\ pc = "done") =>
          LET Red == [DefaultFont EXCEPT !.color = Some(<<"F","F","0","0","0","0">>)]
              Turquoise == [DefaultFont EXCEPT !.color = Some(<<"4","8","D","1","C","C">>)]
          IN  ret = Some([ok |-> TRUE,
                          value |-> << TextElement(<<"t","e","s","t">>, Red),
                                       TextElement(<<"\n">>, DefaultFont),
                                       TextElement(<<"T","E">>, Turquoise),
                                       TextElement(<<"S">>, [Turquoise EXCEPT !.bold = Some(TRUE)]),
                                       TextElement(<<"T","\n","T","E","S","T">>, Turquoise) >>])

C16_Witness ==
    /\ OnFixture
    /\ pc = "done"
    /\ ret[1].ok
    /\ Len(ret[1].value) = 5
    /\ ret[1].value[5].text = <<"T","\n","T","E","S","T">>

HexDigitSet == DigitSet \cup {"a","b","c","d","e","f"} \cup {"A","B","C","D","E","F"}

\* Every keyword of the table is in lower case and every value is six
\* hexadecimal digits.
TableWellFormed ==
    \A n \in 1..Len(COLOR_MAP) :
        /\ to_lowercase(COLOR_MAP[n][1]) = COLOR_MAP[n][1]
        /\ Len(COLOR_MAP[n][2]) = 6
        /\ \A j \in 1..Len(COLOR_MAP[n][2]) : COLOR_MAP[n][2][j] \in HexDigitSet

\* C17: every entry of the named color table has an all-lowercase keyword and
\* a value of exactly six hexadecimal digits with no leading '#', so a token
\* that spells a keyword resolves to six hexadecimal digits.
C17_TableEntriesWellFormed ==
    /\ TableWellFormed
    /\ Analysed /\ FontsWith(data[k], "color") # {} =>
          (EntriesFor(OutermostValue(data[k], "color")) # {} =>
              /\ facets.color # None
              /\ Len(facets.color[1]) = 6
              /\ \A j \in 1..Len(facets.color[1]) : facets.color[1][j] \in HexDigitSet)

C17_Witness ==
    /\ Analysed
    /\ data[k].element = <<Font("color", Some(<<"l","i","g","h","t">>))>>
    /\ EntriesFor(<<"l","i","g","h","t">>) # {}
    /\ facets.color = Some(<<"E","E","D","D","8","2">>)

\* C18: the table contains the numbered gray shades gray0 through gray99: for
\* every n from 0 to 99 the token gray<n> resolves to the value of a table
\* entry rather than being passed through.
C18_NumberedGraysInTable ==
    Analysed =>
        \A n \in 0..99 :
            data[k].element = <<Font("color", Some(Gray(n)))>> =>
                facets.color \in {Some(to_uppercase(COLOR_MAP[m][2])) : m \in EntriesFor(Gray(n))}

\* Elements whose tag is outside the recognized set (br, font, b, strong, i, em,
\* u, ins, sup, sub, del), with and without the attributes the policy reads.
UnknownElements ==
    { Plain("span"), Other("span", "face", Some(Arial)), Other("div", "color", Some(red)),
      Other("p", "size", Some(<<"2">>)), Other("FONT", "color", Some(blue)), Plain("B") }

\* C19: an element whose tag is outside the recognized set is kept in the
\* ancestor sequence but has no effect under the default policy: inserting it
\* anywhere into a run's ancestor sequence leaves all nine facets unchanged,
\* while is_tag of its name becomes true.
C19_UnknownTagNoEffect ==
    Analysed =>
        \A e \in UnknownElements :
            \A j \in 1..(Len(data[k].element) + 1) :
                LET run == HtmlFlatData(data[k].text, Inserted(data[k].element, j, e))
                IN  /\ Facets(run) = facets
                    /\ is_tag(run, e.name)

C19_Witness ==
    /\ Analysed
    /\ data[k].element = <<Font("face", Some(<<"B">>)), Plain("b")>>
    /\ facets.font_name = Some(<<"B">>)
    /\ facets.is_bold
    /\ ~is_tag(data[k], "span")
    /\ Facets(HtmlFlatData(data[k].text,
                           Inserted(data[k].element, 1, Other("span", "face", Some(Arial)))))
           = facets

\* A step in which a recursive call of read_node returns to its caller leaves
\* the caller's accumulator with empty text under the caller's inherited sequence.
C20_ReturnStep ==
    (pc = "read_node" /\ Len(stack) > 1 /\ Len(stack') = Len(stack) - 1) =>
        stack'[Len(stack')].data =
            HtmlFlatData(<<>>, stack[Len(stack) - 1].parent_element)

\* Where text or a line break is about to be appended, the accumulator's
\* sequence is the inherited one.
AtAppend == InLoop /\ (Node.kind = "Text" \/ (Node.kind = "Element" /\ Node.name = "br"))
C20_AppendUnderInherited == AtAppend => Top.data.element = Top.parent_element

\* In <b>x</b>y the run y has no ancestor and is not bold.
C20_Example ==
    \A x \in Texts, y \in Texts :
        html.children = <<Element("b", NoAttributes, <<>>, <<Text(x)>>), Text(y)>> =>
            /\ Flattened => (Len(data) = 2 /\ data[2] = HtmlFlatData(y, <<>>))
            /\ pc = "done" =>
                  /\ ret[1].value[1].run_properties.bold = Some(TRUE)
                  /\ ret[1].value[2] = TextElement(y, DefaultFont)

\* C20: after the recursive flatten of a child returns, the accumulator is
\* reset to the inherited ancestor sequence with empty text: at every step of
\* the sibling loop at which text or a line break is appended the accumulator's
\* sequence equals the inherited one, so text following a closed element is
\* never formatted by that element; in <b>x</b>y the run y is not bold.
C20_ResetAfterChild ==
    [][C20_ReturnStep]_vars /\ [](C20_AppendUnderInherited /\ C20_Example)

C20_Witness ==
    /\ html.children = <<Element("b", NoAttributes, <<>>, <<Text(<<"x">>)>>), Text(<<"y","z">>)>>
    /\ pc = "read_node"
    /\ Len(stack) = 1
    /\ AtAppend
    /\ Top.pos = 2
    /\ Top.data = HtmlFlatData(<<>>, <<>>)
    /\ Top.result = <<HtmlFlatData(<<"x">>, <<Plain("b")>>)>>

\* C21: each run is a maximal span of text under one ancestor context: the
\* flattener never emits two consecutive runs with the same enclosing-element
\* chain; text separated only by an empty element, as in a<i></i>b, is not
\* split into two runs with the same ancestors.
C21_ConsecutiveRunsDiffer ==
    Flattened =>
        \A i \in 1..(Len(data) - 1) : data[i].element # data[i + 1].element

IsCharacterData(node) == node.kind = "Text" \/ (node.kind = "Element" /\ node.name = "br")
IsOpened(node) == node.kind = "Element" /\ node.name # "br"

\* The number of spans of text and br in a tree that no element open or close
\* interrupts: in each sibling list, the blocks of text and br nodes between
\* elements other than br (a comment does not end a block), and the spans
\* inside those elements.
RECURSIVE Spans(_, _)
Spans(nodes, open) ==
    IF nodes = <<>> THEN 0
    ELSE LET node == Head(nodes)
         IN  IF IsOpened(node)
             THEN Spans(node.children, FALSE) + Spans(Tail(nodes), FALSE)
             ELSE IF IsCharacterData(node)
             THEN (IF open THEN 0 ELSE 1) + Spans(Tail(nodes), TRUE)
             ELSE Spans(Tail(nodes), open)

\* C21, amended: a run is a span of text and br that no element open or close
\* interrupts: there is exactly one run for each such span, and every open of
\* an element other than br ends the run before it, also when the element is
\* empty, so two consecutive runs can have the same ancestors; a<i></i>b gives
\* the two runs a and b, both without ancestors.
C21_RunPerUninterruptedSpan ==
    Flattened =>
        /\ Len(data) = Spans(html.children, FALSE)
        /\ \A a \in Texts, b \in Texts, t \in Tags :
              html.children = <<Text(a), Element(t.name, t.attributes, t.classes, <<>>), Text(b)>>
                  => data = <<HtmlFlatData(a, <<>>), HtmlFlatData(b, <<>>)>>

C21_Witness ==
    /\ pc = "done"
    /\ html.children = <<Text(<<"x">>), Element("b", NoAttributes, <<>>, <<>>), Text(<<"y","z">>)>>
    /\ data = <<HtmlFlatData(<<"x">>, <<>>), HtmlFlatData(<<"y","z">>, <<>>)>>

IsPrefix(s, t) == Len(s) <= Len(t) /\ SubSeq(t, 1, Len(s)) = s

\* A step changes neither the parse tree, nor the arguments of a call of
\* read_node that is still running, nor a run already emitted, nor, once the
\* flattener has returned, the flat run list.
C22_InputsKept ==
    /\ html' = html
    /\ \A j \in 1..Len(stack) :
          j <= Len(stack') =>
              /\ stack'[j].node_list = stack[j].node_list
              /\ stack'[j].parent_element = stack[j].parent_element
              /\ IsPrefix(stack[j].result, stack'[j].result)
    /\ (pc = "read_node" /\ pc' = "make_rich_text") => IsPrefix(stack[1].result, data')
    /\ pc \in {"make_rich_text", "font", "done"} => data' = data
    /\ Len(stack') > Len(stack) /\ Len(stack) > 0 =>
          /\ stack'[Len(stack')].node_list = Node.children
          /\ stack'[Len(stack')].parent_element = Append(Top.parent_element, HfdElement(Node))

\* C22: no component changes another's inputs: read_node leaves the sibling
\* list and the inherited ancestor sequence it was given unchanged (the child's
\* context is appended to a copy), make_rich_text and the policy operations
\* leave the flat run list unchanged, and the ancestor sequence of a run
\* already emitted never changes while later siblings or subtrees are processed.
C22_NoInputMutated == [][C22_InputsKept]_vars

C22_Witness ==
    /\ pc = "read_node"
    /\ Len(stack) = 2
    /\ stack[1].result = <<HtmlFlatData(<<"x">>, <<>>)>>
    /\ stack[2].parent_element = <<Plain("b")>>
    /\ stack[2].data.text = <<"y","z">>

\* C23: conversions of independent inputs need no coordination: when two
\* conversions run concurrently, their flatten and build steps interleaved in
\* any order, each returns exactly what it returns when run alone.
C23_SameAsAlone ==
    /\ pc = "done" => ret = Some(html_to_richtext(html))
    /\ (other # None /\ other[1].pc = "done") =>
          other[1].ret = Some(html_to_richtext(other[1].html))

C23_Witness ==
    /\ other # None
    /\ pc = "done"
    /\ html.children = <<Element("b", NoAttributes, <<>>, <<Text(<<"x">>)>>), Text(<<"y","z">>)>>
    /\ Len(ret[1].value) = 2
    /\ other[1].pc = "font"
    /\ other[1].data = <<HtmlFlatData(<<"x","\n">>, <<Font("color", Some(red))>>)>>
    /\ other[1].html.children =
          <<Element("font", Attr1("color", Some(red)), <<>>, <<Text(<<"x">>), Br>>)>>

\* The outermost font ancestor of the run that has the attribute has it
\* without a value.
OutermostValueless(run, attribute) ==
    /\ FontsWith(run, attribute) # {}
    /\ run.element[Outermost(FontsWith(run, attribute))] =
           [name |-> "font", attributes |-> attribute :> <<>>, classes |-> <<>>]

\* C24: an attribute present without a value is recorded as the empty string
\* and counts as present: a font ancestor with a valueless face (or color)
\* makes font_name (or color) the empty string, set as such on the font, and,
\* found first from the outside, hides the face (or color) of an inner font.
C24_ValuelessAttributeIsEmptyString ==
    /\ \A a \in {"face", "color"} :
          HfdElement(Tag("font", Attr1(a, None), <<>>)) =
              [name |-> "font", attributes |-> a :> <<>>, classes |-> <<>>]
    /\ Analysed =>
          /\ OutermostValueless(data[k], "face") => facets.font_name = Some(<<>>)
          /\ OutermostValueless(data[k], "color") => facets.color = Some(<<>>)
    /\ Added =>
          /\ OutermostValueless(data[k - 1], "face") => LastFont.name = Some(<<>>)
          /\ OutermostValueless(data[k - 1], "color") => LastFont.color = Some(<<>>)

C24_Witness ==
    /\ Added
    /\ data[k - 1].element = <<Font("face", None), Font("face", Some(Arial))>>
    /\ facets.font_name = Some(<<>>)
    /\ LastFont.name = Some(<<>>)

\* No two entries of the table have the same keyword, compared in upper case.
NoDuplicateKeys ==
    \A m \in 1..Len(COLOR_MAP) : \A n \in 1..Len(COLOR_MAP) :
        key_to_uppercase[m] = key_to_uppercase[n] => m = n

\* C28: no keyword occurs twice in the table, also when compared without
\* regard to case, so the first-match search of color resolution gives the
\* value of the only entry that matches, whatever the order of the entries.
C28_NoDuplicateKeyword ==
    /\ NoDuplicateKeys
    /\ Analysed /\ FontsWith(data[k], "color") # {} =>
          LET token == normalize_color(OutermostValue(data[k], "color"))
              matches == {n \in 1..Len(COLOR_MAP) : key_to_uppercase[n] = token}
          IN  /\ Cardinality(matches) <= 1
              /\ \A n \in matches : facets.color = Some(to_uppercase(COLOR_MAP[n][2]))

C28_Witness ==
    /\ Analysed
    /\ data[k].element = <<Font("color", Some(<<"G","R","A","Y","9","9">>))>>
    /\ Cardinality({n \in 1..Len(COLOR_MAP) :
                       key_to_uppercase[n] = <<"G","R","A","Y","9","9">>}) = 1
    /\ facets.color = Some(<<"F","C","F","C","F","C">>)

\* A step keeps the objects held, in their order, and adds at most one at the end.
C27_OnlyAppended ==
    \/ ole_object' = ole_object
    \/ \E value \in OleObjectValues : ole_object' = ole_object \o <<value>>

\* What write_to has written: nothing for an empty collection, otherwise the
\* start tag, the objects in their order with ids r_id, r_id + 2, ..., and
\* the end tag.
C27_Written ==
    pc = "ole_objects_written" =>
        IF ole_object = <<>>
        THEN writer = <<>>
        ELSE /\ Len(writer) = Len(ole_object) + 2
             /\ writer[1] = [event |-> "Start", name |-> "oleObjects", attributes |-> <<>>]
             /\ writer[Len(writer)] = [event |-> "End", name |-> "oleObjects", attributes |-> <<>>]
             /\ \A n \in 0..(Len(ole_object) - 1) :
                   writer[n + 2] = [event |-> "OleObject", obj |-> ole_object[n + 1],
                                    r_id |-> r_id + 2 * n]

\* C27: OleObjects::write_to emits nothing when the collection is empty;
\* otherwise one oleObjects start tag, then every object in insertion order,
\* the k-th (from 0) with relationship id r_id + 2k, then one oleObjects end
\* tag; set_ole_object only ever appends, so the objects are held and written
\* in call order.
C27_WrittenInCallOrder == [][C27_OnlyAppended]_vars /\ []C27_Written

C27_Witness ==
    /\ pc = "ole_objects_written"
    /\ ole_object = <<"b", "a", "b">>
    /\ r_id = 1
    /\ writer[2] = [event |-> "OleObject", obj |-> "b", r_id |-> 1]
    /\ writer[3] = [event |-> "OleObject", obj |-> "a", r_id |-> 3]
    /\ writer[4] = [event |-> "OleObject", obj |-> "b", r_id |-> 5]

\* The tags of a sequence of events are properly nested: every End closes the
\* Start opened last, and nothing stays open.
RECURSIVE Nested(_, _)
Nested(events, open) ==
    IF events = <<>> THEN open = <<>>
    ELSE LET e == Head(events)
         IN  IF e.event = "Start" THEN Nested(Tail(events), <<e.name>> \o open)
             ELSE IF e.event = "End"
             THEN open # <<>> /\ Head(open) = e.name /\ Nested(Tail(events), Tail(open))
             ELSE Nested(Tail(events), open)

Names(events) == [i \in 1..Len(events) |-> <<events[i].event, events[i].name>>]

TheCellFormat == stylesheet.cell_formats[0].format
TheDefaultFormat == stylesheet.cell_style_formats[0]

\* The effective apply flag of a component: the cell format's own flag if it
\* has one, otherwise the default format's if it has one, otherwise true.
Effective(c) ==
    IF TheCellFormat.apply[c] # None THEN TheCellFormat.apply[c][1]
    ELSE IF TheDefaultFormat.apply[c] # None THEN TheDefaultFormat.apply[c][1]
    ELSE TRUE

\* C25: in get_style_by_cell_format each of number format, font, fill and
\* border is copied into the style exactly when its effective apply flag is
\* true, and so is the alignment; when alignment applies and both formats have
\* an alignment, the cell format's is the one kept.
C25_CopiedWhenApplied ==
    pc = "style" =>
        /\ style.numbering_format =
              (IF Effective("number_format")
               THEN Some(stylesheet.numbering_formats[TheCellFormat.ids["number_format"]])
               ELSE None)
        /\ style.font =
              (IF Effective("font") THEN Some(stylesheet.fonts[TheCellFormat.ids["font"]])
               ELSE None)
        /\ style.fill =
              (IF Effective("fill") THEN Some(stylesheet.fills[TheCellFormat.ids["fill"]])
               ELSE None)
        /\ style.borders =
              (IF Effective("border") THEN Some(stylesheet.borders[TheCellFormat.ids["border"]])
               ELSE None)
        /\ style.alignment =
              (IF ~Effective("alignment") THEN None
               ELSE IF TheCellFormat.alignment # None THEN TheCellFormat.alignment
               ELSE TheDefaultFormat.alignment)

C25_Witness ==
    /\ pc = "style"
    /\ TheDefaultFormat.apply["font"] = Some(TRUE)
    /\ TheCellFormat.apply["font"] = Some(FALSE)
    /\ TheDefaultFormat.alignment = Some("left")
    /\ TheCellFormat.alignment = Some("right")
    /\ style.font = None
    /\ style.fill = Some("fill1")
    /\ style.alignment = Some("right")

====
